---------------------------- MODULE Spec2Model ----------------------------
(***************************************************************************)
(* A model of git-sonic: the webhook receiver and the bounded worker       *)
(* queue (pkg/server, internal/service/queue, main), the agent loop with   *)
(* its history management (pkg/orchestrator) and the issue / PR workflow   *)
(* engine (internal/service/workflow).                                     *)
(*                                                                         *)
(* Each subsystem has its own variables, initial condition and next-state  *)
(* relation; a specification of one subsystem holds the variables of the   *)
(* others at a fixed idle value.                                           *)
(***************************************************************************)
EXTENDS Integers, Sequences, FiniteSets, TLC

VARIABLES
  \* ---- receiver, queue and main (SpecQueue) ----
  cfgMaxWorkers,  \* cfg.MaxWorkers as loaded from the environment
  mainPc,         \* position of main(): "serve", "shutdown", "cancel", "stop", "exited"
  listening,      \* the HTTP listener accepts new connections
  ctxDone,        \* the worker context (ctx of q.Start) is cancelled
  jobs,           \* buffer of the channel q.jobs (a Job is named by its Event)
  worker,         \* per worker goroutine: [pc, job]
  handled,        \* per Event: number of times q.handler was invoked with its Job
  arrived,        \* number of webhook requests accepted by the listener so far
  response,       \* per request: HTTP status written (0: handler has not answered)
  enqueued,       \* per Event: number of Jobs placed in q.jobs for it
  \* ---- agent loop, AgentLoop.Run (SpecLoop) ----
  reqMaxIterations, \* req.MaxIterations
  reqMaxMessages,   \* req.MaxMessages
  reqCompact,       \* req.CompactConfig: [Enabled, Threshold, KeepRecent]
  loopPc,           \* position of Run: "top", "call", "tools", "done" ("idle": not running)
  messages,         \* state.Messages
  iterations,       \* state.Iterations
  seenToolUseIDs,   \* the set seenToolUseIDs of Run
  generated,        \* number of ids generateToolUseID has produced
  sent,             \* Messages of the AgentRequest of the latest Provider.Call
  calls,            \* number of tool-enabled Provider.Call invocations of Run
  toolUsesAdded,    \* number of tool-use blocks appended to the conversation so far
  lastResponse,     \* state.LastResponse after id repair: [content, stop]
  loopCtxDone,      \* the ctx passed to Run is cancelled
  loopResult,       \* how Run returned: "none", "success", "cancelled", "call_failed",
                    \* "max_tokens", "max_iterations"
  \* ---- workflow engine, handleIssue / handlePROptimize (SpecEngine) ----
  wfKind,           \* "issue": handleIssue runs, "pr": handlePROptimize runs ("idle": none)
  cfgTriggerLabels, \* cfg.TriggerLabels
  assignSender,     \* requireLabeler && event.Sender != ""
  platformLabels,   \* the labels of the issue on the hosting platform
  issueLabels,      \* issue.Labels as GetIssue returned them
  enginePc,         \* the step the handler is about to run, or "returned"
  outcome,          \* result of e.llm.Run: [decision, files (Response.Files is not empty),
                    \* patch (Response.Patch is not empty), agentWrote (the run changed
                    \* the checkout)]
  worktreeDirty,    \* the checkout has a change outside the automation artifacts
  labelWrites,      \* the SetIssueLabels calls the platform accepted: [step, labels]
  comments,         \* the comments the platform accepted, by kind
  commits,          \* commits created on the checked-out branch
  pushes,           \* successful runs of `git push`
  pushedCommits,    \* commits of this run that the remote branch holds
  prOpened,         \* CreatePR succeeded
  prBodyUpdated,    \* UpdatePRBody succeeded
  assigneesAdded,   \* AddAssignees succeeded
  engineReturn,     \* "none", "nil" or "error": what the handler returned
  handler,          \* the Handle* method the worker called with the event
  event,            \* the webhook.Event: [type, action, present (Issue / PullRequest is
                    \* not nil), state (Issue.State), label, body (the slash commands
                    \* that CommentBody contains)]
  itemOpen,         \* GetIssue / GetPR reports the state "open"
  workspaceCreated, \* prepareWorkspace has created the run's directory
  llmCalled,        \* e.llm.Run has been invoked
  \* ---- built-in tools' path check, ToolContext.ValidatePath (SpecPath) ----
  toolWorkDir,      \* c.WorkDir of the ToolContext
  validated,        \* the latest ValidatePath call: [called, path, ok, absPath]
  \* ---- one Call of an LLM provider, ClaudeProvider / OpenAIProvider (SpecProvider) ----
  provDialect,      \* "claude" or "openai": the provider that runs Call ("idle": none)
  provMaxAttempts,  \* p.MaxAttempts
  provAttempt,      \* HTTP requests Call has made: the loop variable attempt
  provLast,         \* outcome of the latest doRequest: [status, err, parsed]
  provResult,       \* "running", or how Call returned: "ok", "error"
  \* ---- tool registration, createUnifiedAgentRunner (SpecRegistry) ----
  cfgToolsEnabled,  \* cfg.ToolsEnabled
  cfgMCPServers,    \* cfg.MCPServers, each with what its process will do:
                    \* [name, fails (the stage that fails, or "none"), tools]
  registry,         \* names of the tools in the registry
  regPc,            \* "builtin", "servers", "done" ("idle": no runner is built)
  serverOutcome,    \* per server handled so far: "ok" or the stage that failed
  \* ---- one webhook request, Server.handleWebhook (SpecWebhook) ----
  whAllowlist,      \* s.allowlist: [allowAll, entries]
  whRequest,        \* the request: [method, ip, event (X-GitHub-Event), body]
  whJobs,           \* buffer of q.jobs; 0 is a Job queued earlier, 1 this request's Job
  whStatus,         \* the HTTP status written (0: not answered yet)
  \* ---- truncateMessages applied to a conversation (SpecTruncate) ----
  tmMessages,       \* the argument messages
  tmMaxMessages,    \* the argument maxMessages
  tmResult,         \* [returned, messages]: the list truncateMessages returned
  \* ---- the tool-call branch of AgentLoop.Run, executeTools (SpecTools) ----
  tcRegistry,  \* names of the tools l.Registry holds
  tcUses,      \* toolUses: per tool-use block [id, name, exec (what its executor
               \* would do)]
  tcResults,   \* results of executeTools so far: [ID, Name, IsError]
  tcToolCalls, \* the records AddToolCall added to state.ToolCalls
  tcAppended,  \* the messages the branch added to state.Messages
  tcPc,        \* "execute", "top" (the loop goes on), "error" (Run returned the
               \* tool-execution error); "idle": not running
  \* ---- tools.Registry under concurrent Register and Get calls (SpecConc) ----
  crTools,   \* r.tools: per name the registered Tool (0: no entry)
  crWriter,  \* the goroutine that holds r.mu for writing (0: none)
  crReaders, \* the goroutines that hold r.mu for reading
  crCall,    \* per goroutine its call: [op, name, pc, exists (the local of Register),
             \* err (Register returned an error), tool (the Tool Get returned)]
  \* ---- issue_comment deliveries of the engine's own comments (SpecFeed) ----
  fdDelivered, \* number of the engine's own comments that came back as issue_comment
               \* deliveries and were handed to HandleIssueComment
  fdKind,      \* the kind of the engine's comment the current event is about ("": the
               \* event is not about a comment of the engine)
  \* ---- the stdio transport of an external tool server, StdioTransport (SpecStdio) ----
  stNextID,  \* t.nextID
  stPending, \* t.pending: the entries [key (the id as a Go value), owner (the
             \* Send whose channel the entry holds)]
  stIn,      \* request lines the server has not answered yet: [id (as JSON), to]
  stOut,     \* response lines the reader has not read yet: [id (as JSON), to (the
             \* Send whose request the response answers)]
  stChan,    \* per Send the response in its channel respCh
  stSend,    \* per Send: [pc, id (req.ID), ctxDone, err (an error was returned),
             \* resp (the response returned)]
  stClosed,  \* t.closed
  stReader,  \* the goroutine readResponses: "running" or "exited"
  stChild,   \* the server process: "running", or "exited" (its output has ended)
  stSentIDs, \* the ids, as JSON, of the request lines written so far, in order
  \* ---- one call of Compactor.Compact (SpecCompact) ----
  cpMessages,  \* the messages argument
  cpConfig,    \* c.config
  cpSummaryOK, \* whether generateSummary would return a summary (FALSE: the provider
               \* call fails or its response holds no text)
  cpResult,    \* [returned, messages, err]: what Compact returned
  \* ---- one call of llm.Runner.Run up to its return (SpecRunner) ----
  rnRunner, \* the Runner implementation that is called
  rnRunOK,  \* whether the command, the HTTP call or the orchestrator run succeeds
  rnOutput, \* the final output: its top-level `{` candidates in order, each
            \* [json (it decodes as a JSON object), decision (its decision field, ""
            \* when absent)]
  rnResult, \* [returned, err, decision]: the RunResult and error of Run
  \* ---- the workspaces and branches of concurrent jobs (SpecWorkspace) ----
  wsNow, \* e.now(): the wall clock, in ticks of 1/TicksPerSecond second
  wsJob, \* per job [kind, number, repo, pc, workDir, branch]: pc is "start",
         \* "mkdir" (the directories exist, Clone is next), "prepared", "branched"
         \* or "failed"; workDir and branch are <<>> until they are computed
  \* ---- the timeout of one BashTool.Execute (SpecBash) ----
  btBashTimeout, \* toolCtx.BashTimeout, in seconds
  btInput,       \* input["timeout"]: [kind, halves]; kind "absent" (no float64 under the
                 \* key), "float" (the float64 halves/2) or "huge" (a float64 beyond the range
                 \* of int)
  btResult       \* [done, timeout]: the seconds handed to context.WithTimeout

queueVars == <<cfgMaxWorkers, mainPc, listening, ctxDone, jobs, worker, handled,
               arrived, response, enqueued>>

loopVars == <<reqMaxIterations, reqMaxMessages, reqCompact, loopPc, messages, iterations,
              seenToolUseIDs, generated, sent, calls, toolUsesAdded, lastResponse,
              loopCtxDone, loopResult>>

engineVars == <<wfKind, cfgTriggerLabels, assignSender, platformLabels, issueLabels,
                enginePc, outcome, worktreeDirty, labelWrites, comments, commits, pushes,
                pushedCommits, prOpened, prBodyUpdated, assigneesAdded, engineReturn,
                handler, event, itemOpen, workspaceCreated, llmCalled>>

pathVars == <<toolWorkDir, validated>>

providerVars == <<provDialect, provMaxAttempts, provAttempt, provLast, provResult>>

registryVars == <<cfgToolsEnabled, cfgMCPServers, registry, regPc, serverOutcome>>

webhookVars == <<whAllowlist, whRequest, whJobs, whStatus>>

truncateVars == <<tmMessages, tmMaxMessages, tmResult>>

toolsVars == <<tcRegistry, tcUses, tcResults, tcToolCalls, tcAppended, tcPc>>

concVars == <<crTools, crWriter, crReaders, crCall>>

feedVars == <<fdDelivered, fdKind>>

stdioVars == <<stNextID, stPending, stIn, stOut, stChan, stSend, stClosed, stReader,
               stChild, stSentIDs>>

compactVars == <<cpMessages, cpConfig, cpSummaryOK, cpResult>>

runnerVars == <<rnRunner, rnRunOK, rnOutput, rnResult>>

workspaceVars == <<wsNow, wsJob>>

bashVars == <<btBashTimeout, btInput, btResult>>

vars == <<queueVars, loopVars, engineVars, pathVars, providerVars, registryVars,
          webhookVars, truncateVars, toolsVars, concVars, feedVars, stdioVars,
          compactVars, runnerVars, workspaceVars, bashVars>>

\* the variables of the other subsystems, left alone by the queue's actions
notQueueVars ==
  <<loopVars, engineVars, pathVars, providerVars, registryVars, webhookVars,
    truncateVars, toolsVars, concVars, feedVars, stdioVars, compactVars, runnerVars,
    workspaceVars, bashVars>>
\* the variables of the other subsystems, left alone by the agent loop's actions
notLoopVars ==
  <<queueVars, engineVars, pathVars, providerVars, registryVars, webhookVars,
    truncateVars, toolsVars, concVars, feedVars, stdioVars, compactVars, runnerVars,
    workspaceVars, bashVars>>
\* the variables of the other subsystems, left alone by the engine's actions
notEngineVars ==
  <<queueVars, loopVars, pathVars, providerVars, registryVars, webhookVars,
    truncateVars, toolsVars, concVars, feedVars, stdioVars, compactVars, runnerVars,
    workspaceVars, bashVars>>
\* the variables of the other subsystems, left alone by the path check
notPathVars ==
  <<queueVars, loopVars, engineVars, providerVars, registryVars, webhookVars,
    truncateVars, toolsVars, concVars, feedVars, stdioVars, compactVars, runnerVars,
    workspaceVars, bashVars>>
\* the variables of the other subsystems, left alone by a provider call
notProviderVars ==
  <<queueVars, loopVars, engineVars, pathVars, registryVars, webhookVars, truncateVars,
    toolsVars, concVars, feedVars, stdioVars, compactVars, runnerVars, workspaceVars,
    bashVars>>
\* the variables of the other subsystems, left alone by the tool registration
notRegistryVars ==
  <<queueVars, loopVars, engineVars, pathVars, providerVars, webhookVars, truncateVars,
    toolsVars, concVars, feedVars, stdioVars, compactVars, runnerVars, workspaceVars,
    bashVars>>
\* the variables of the other subsystems, left alone by the webhook handler
notWebhookVars ==
  <<queueVars, loopVars, engineVars, pathVars, providerVars, registryVars, truncateVars,
    toolsVars, concVars, feedVars, stdioVars, compactVars, runnerVars, workspaceVars,
    bashVars>>
\* the variables of the other subsystems, left alone by the truncation
notTruncateVars ==
  <<queueVars, loopVars, engineVars, pathVars, providerVars, registryVars, webhookVars,
    toolsVars, concVars, feedVars, stdioVars, compactVars, runnerVars, workspaceVars,
    bashVars>>
\* the variables of the other subsystems, left alone by the tool-call branch
notToolsVars ==
  <<queueVars, loopVars, engineVars, pathVars, providerVars, registryVars, webhookVars,
    truncateVars, concVars, feedVars, stdioVars, compactVars, runnerVars, workspaceVars,
    bashVars>>
\* the variables of the other subsystems, left alone by the registry's callers
notConcVars ==
  <<queueVars, loopVars, engineVars, pathVars, providerVars, registryVars, webhookVars,
    truncateVars, toolsVars, feedVars, stdioVars, compactVars, runnerVars,
    workspaceVars, bashVars>>
\* the variables of the other subsystems, left alone by the issue-comment feed
notFeedVars ==
  <<queueVars, loopVars, engineVars, pathVars, providerVars, registryVars, webhookVars,
    truncateVars, toolsVars, concVars, stdioVars, compactVars, runnerVars,
    workspaceVars, bashVars>>
\* the variables of the other subsystems, left alone by the stdio transport
notStdioVars ==
  <<queueVars, loopVars, engineVars, pathVars, providerVars, registryVars, webhookVars,
    truncateVars, toolsVars, concVars, feedVars, compactVars, runnerVars, workspaceVars,
    bashVars>>
\* the variables of the other subsystems, left alone by a call of Compact
notCompactVars ==
  <<queueVars, loopVars, engineVars, pathVars, providerVars, registryVars, webhookVars,
    truncateVars, toolsVars, concVars, feedVars, stdioVars, runnerVars, workspaceVars,
    bashVars>>
\* the variables of the other subsystems, left alone by a call of a Runner
notRunnerVars ==
  <<queueVars, loopVars, engineVars, pathVars, providerVars, registryVars, webhookVars,
    truncateVars, toolsVars, concVars, feedVars, stdioVars, compactVars, workspaceVars,
    bashVars>>
\* the variables of the other subsystems, left alone by the jobs' workspaces
notWorkspaceVars ==
  <<queueVars, loopVars, engineVars, pathVars, providerVars, registryVars, webhookVars,
    truncateVars, toolsVars, concVars, feedVars, stdioVars, compactVars, runnerVars,
    bashVars>>
\* the variables of the other subsystems, left alone by the bash tool
notBashVars ==
  <<queueVars, loopVars, engineVars, pathVars, providerVars, registryVars, webhookVars,
    truncateVars, toolsVars, concVars, feedVars, stdioVars, compactVars, runnerVars,
    workspaceVars>>

-----------------------------------------------------------------------------
(* Bounds of the model *)

\* cfg.MaxWorkers ranges over 0..MaxWorkersCfg (0 exercises the "< 1" clamp)
MaxWorkersCfg == 2
\* number of webhook requests delivered in one run of the process
MaxRequests == 5

\* number of requests whose handler runs concurrently
MaxInflight == 1

Requests == 1..MaxRequests

\* requests accepted by the listener and not answered yet
Inflight == {r \in 1..arrived : response[r] = 0}

-----------------------------------------------------------------------------
(* internal/service/queue/queue.go *)

\* New: the capacity of the channel q.jobs
QueueCapacity(workerCount) ==
  (IF workerCount < 1 THEN 1 ELSE workerCount) * 4

\* Start: the number of worker goroutines launched
StartWorkerCount_Unclamped(workerCount) == workerCount + 1
StartWorkerCount(workerCount) ==
  IF workerCount < 1 THEN 1 ELSE workerCount

\* Enqueue: a non-blocking send on q.jobs; err is the "queue is full" error
Enqueue_Unbounded(q, capacity, job) == [jobs |-> Append(q, job), err |-> FALSE]
Enqueue_SilentDrop(q, capacity, job) ==
  IF Len(q) < capacity
    THEN [jobs |-> Append(q, job), err |-> FALSE]
    ELSE [jobs |-> q, err |-> FALSE]
Enqueue(q, capacity, job) ==
  IF Len(q) < capacity
    THEN [jobs |-> Append(q, job), err |-> FALSE]
    ELSE [jobs |-> q, err |-> TRUE]

\* the receive `job := <-q.jobs` of a worker
Receive_Peek(q) == [job |-> Head(q), jobs |-> q]
Receive(q) == [job |-> Head(q), jobs |-> Tail(q)]

\* Stop: wg.Wait() returns once every worker goroutine has run wg.Done()
StopMayReturn_NoWait == TRUE
StopMayReturn == \A w \in DOMAIN worker : worker[w].pc = "returned"

Workers == DOMAIN worker

\* number of occurrences of job j in the channel buffer
InQueue(j) == Cardinality({i \in 1..Len(jobs) : jobs[i] = j})

\* State after main() has run queue.New, q.Start and started the HTTP server.
QueueStart ==
  /\ cfgMaxWorkers \in 0..MaxWorkersCfg
  /\ mainPc = "serve"
  /\ listening = TRUE
  /\ ctxDone = FALSE
  /\ jobs = <<>>
  /\ worker = [w \in 1..StartWorkerCount(cfgMaxWorkers) |-> [pc |-> "select", job |-> 0]]
  /\ handled = [r \in Requests |-> 0]
  /\ arrived = 0
  /\ response = [r \in Requests |-> 0]
  /\ enqueued = [r \in Requests |-> 0]

\* A worker's select takes the next job.  When ctx.Done() is ready as well,
\* Go's select picks either case, so a job may still be taken after cancel.
WorkerTake(w) ==
  /\ mainPc # "exited"
  /\ worker[w].pc = "select"
  /\ jobs # <<>>
  /\ LET r == Receive(jobs) IN
       /\ jobs' = r.jobs
       /\ worker' = [worker EXCEPT ![w] = [pc |-> "handler", job |-> r.job]]
       /\ handled' = [handled EXCEPT ![r.job] = @ + 1]
  /\ UNCHANGED <<cfgMaxWorkers, mainPc, listening, ctxDone, arrived, response, enqueued, notQueueVars>>

\* q.handler(ctx, job) returns (its error is discarded); back to the select.
WorkerHandlerReturns(w) ==
  /\ mainPc # "exited"
  /\ worker[w].pc = "handler"
  /\ worker' = [worker EXCEPT ![w] = [pc |-> "select", job |-> 0]]
  /\ UNCHANGED <<cfgMaxWorkers, mainPc, listening, ctxDone, jobs, handled, arrived,
                 response, enqueued, notQueueVars>>

\* A worker's select takes <-ctx.Done(): the goroutine returns, wg.Done() runs.
WorkerReturn(w) ==
  /\ mainPc # "exited"
  /\ worker[w].pc = "select"
  /\ ctxDone
  /\ worker' = [worker EXCEPT ![w] = [pc |-> "returned", job |-> 0]]
  /\ UNCHANGED <<cfgMaxWorkers, mainPc, listening, ctxDone, jobs, handled, arrived,
                 response, enqueued, notQueueVars>>

-----------------------------------------------------------------------------
(* pkg/server/server.go *)

\* The listener accepts the connection of the next webhook request.
Arrive ==
  /\ listening
  /\ arrived < MaxRequests
  /\ Cardinality(Inflight) < MaxInflight
  /\ arrived' = arrived + 1
  /\ UNCHANGED <<cfgMaxWorkers, mainPc, listening, ctxDone, jobs, worker, handled,
                 response, enqueued, notQueueVars>>

\* Server.handleWebhook for request r, which carries Event r.
\* methodOK: the method is POST; ipOK: the allowlist allows the client IP;
\* payloadOK: webhook.ParseEvent succeeds.
handleWebhook(r) ==
  /\ mainPc # "exited"
  /\ r <= arrived
  /\ response[r] = 0
  /\ \E methodOK, ipOK, payloadOK \in BOOLEAN :
       IF ~methodOK THEN
         /\ response' = [response EXCEPT ![r] = 405]
         /\ UNCHANGED <<jobs, enqueued>>
       ELSE IF ~ipOK THEN
         /\ response' = [response EXCEPT ![r] = 403]
         /\ UNCHANGED <<jobs, enqueued>>
       ELSE IF ~payloadOK THEN
         /\ response' = [response EXCEPT ![r] = 400]
         /\ UNCHANGED <<jobs, enqueued>>
       ELSE
         LET e == Enqueue(jobs, QueueCapacity(cfgMaxWorkers), r) IN
           /\ jobs' = e.jobs
           /\ enqueued' = [enqueued EXCEPT ![r] = @ + (Len(e.jobs) - Len(jobs))]
           /\ response' = [response EXCEPT ![r] = IF e.err THEN 503 ELSE 202]
  /\ UNCHANGED <<cfgMaxWorkers, mainPc, listening, ctxDone, worker, handled, arrived, notQueueVars>>

-----------------------------------------------------------------------------
(* main(): the shutdown sequence *)

\* <-sigCh, then httpServer.Shutdown closes the listeners first.
Signal ==
  /\ mainPc = "serve"
  /\ mainPc' = "shutdown"
  /\ listening' = FALSE
  /\ UNCHANGED <<cfgMaxWorkers, ctxDone, jobs, worker, handled, arrived, response, enqueued, notQueueVars>>

\* httpServer.Shutdown(shutdownCtx) returns: the connections went idle, or the
\* 10 s deadline expired while a handler was still running.
ShutdownReturns ==
  /\ mainPc = "shutdown"
  /\ mainPc' = "cancel"
  /\ UNCHANGED <<cfgMaxWorkers, listening, ctxDone, jobs, worker, handled, arrived,
                 response, enqueued, notQueueVars>>

\* cancel()
Cancel ==
  /\ mainPc = "cancel"
  /\ ctxDone' = TRUE
  /\ mainPc' = "stop"
  /\ UNCHANGED <<cfgMaxWorkers, listening, jobs, worker, handled, arrived, response, enqueued, notQueueVars>>

\* q.Stop() returns and main returns: the process exits.
QueueStop ==
  /\ mainPc = "stop"
  /\ StopMayReturn
  /\ mainPc' = "exited"
  /\ UNCHANGED <<cfgMaxWorkers, listening, ctxDone, jobs, worker, handled, arrived,
                 response, enqueued, notQueueVars>>

-----------------------------------------------------------------------------
(* pkg/orchestrator: the agent loop (AgentLoop.Run) and its history bounds *)

\* req.MaxIterations ranges over 0..MaxIterationsCfg (0: the default applies)
MaxIterationsCfg == 1
\* iterations explored in one run (caps the runs under the default maximum)
IterCap == 2
\* req.MaxMessages ranges over 0..MaxMessagesCfg (0: the default applies)
MaxMessagesCfg == 2
\* CompactConfig.Threshold ranges over 1..MaxThreshold
MaxThreshold == 1
\* CompactConfig.KeepRecent ranges over 0..MaxKeepRecent
MaxKeepRecent == 1
\* tool-use blocks in one provider response
MaxUses == 2
\* the provider returns tool-use ids 0..MaxProviderID (0 is the empty id "")
MaxProviderID == 1
\* longest path, in elements, a tool call carries
MaxPathLen == 3
\* largest MaxAttempts a provider is configured with
MaxAttemptsCfg == 2
\* largest number of configured external tool servers
MaxServers == 2
\* longest conversation handed to truncateMessages on its own
MaxConversation == 4
\* largest maxMessages handed to truncateMessages on its own
MaxKeep == 3
\* number of tool-use blocks in the response whose tools executeTools runs
MaxToolUses == 2
\* number of goroutines that call the registry at the same time
MaxCallers == 3
\* number of the engine's own comments whose delivery is followed
MaxSelfDeliveries == 2
\* number of goroutines that call Send on one transport
MaxSends == 2
\* `{` candidates in one final output
MaxObjects == 2
\* jobs handled at the same time
MaxJobs == 2
\* issue and PR numbers range over 1..MaxIssueNumber
MaxIssueNumber == 2
\* ticks of the wall clock in one second, and the last tick explored
TicksPerSecond == 2
MaxNow == 3
\* toolCtx.BashTimeout ranges over -1..MaxBashSeconds, the timeout of an
\* input over -1..MaxBashSeconds in steps of one half
MaxBashSeconds == 302

defaultMaxIterations == 50
defaultMaxMessages == 50
\* the safety limit of the fixed-point loop of truncateMessages
truncateSafetyLimit == 100

\* the empty string as a tool-use id
EmptyID == 0

TextBlock == [type |-> "text", id |-> EmptyID]
ToolUseBlock(id) == [type |-> "tool_use", id |-> id]
\* a tool-result block; id is its ToolUseID
ToolResultBlock(id) == [type |-> "tool_result", id |-> id]

\* llm.NewTextMessage
NewTextMessage(role) == [role |-> role, content |-> <<TextBlock>>]

\* generateToolUseID: "toolu_" + 12 random bytes in hex, a value that no
\* earlier call and no provider response has produced; n counts the calls.
generateToolUseID_Constant(n) == MaxProviderID + 1
generateToolUseID(n) == MaxProviderID + n

\* Message.GetToolUses
GetToolUses(content) == SelectSeq(content, LAMBDA b : b.type = "tool_use")

\* the non-empty tool-use ids of the messages ms[i], i \in idx
ToolUseIDsAt(ms, idx) ==
  {ms[i].content[k].id : <<i, k>> \in
     {p \in idx \X (1..(MaxUses + 1)) :
        /\ p[2] <= Len(ms[p[1]].content)
        /\ ms[p[1]].content[p[2]].type = "tool_use"
        /\ ms[p[1]].content[p[2]].id # EmptyID}}

\* the positions <<i, k>> of the tool-result blocks of the messages ms[i], i \in idx
ToolResultsAt(ms, idx) ==
  {p \in idx \X (1..(MaxUses + 1)) :
     /\ p[2] <= Len(ms[p[1]].content)
     /\ ms[p[1]].content[p[2]].type = "tool_result"}

\* validateToolPairs: TRUE when it returns nil (no orphaned tool-result)
validateToolPairs(ms) ==
  LET toolUseIDs == ToolUseIDsAt(ms, 1..Len(ms)) IN
    \A p \in ToolResultsAt(ms, 1..Len(ms)) :
      LET id == ms[p[1]].content[p[2]].id IN
        id # EmptyID /\ id \in toolUseIDs

\* order of the scan `for i ... for _, block := range messages[i].Content`
Before(p, q) == p[1] < q[1] \/ (p[1] = q[1] /\ p[2] <= q[2])

\* One pass of the fixed-point loop of truncateMessages from keepFrom (an
\* index of the 1-based sequence ms): the first tool-result of the kept
\* suffix whose tool-use is dropped and found in ms[2..keepFrom-1] moves
\* keepFrom back to the nearest message holding that tool-use.
truncateStep_NoMoveBack(ms, keepFrom) == keepFrom
truncateStep(ms, keepFrom) ==
  LET toolUseIDs == ToolUseIDsAt(ms, {1} \cup (keepFrom..Len(ms)))
      found == {p \in ToolResultsAt(ms, keepFrom..Len(ms)) :
                  LET id == ms[p[1]].content[p[2]].id IN
                    /\ id # EmptyID
                    /\ id \notin toolUseIDs
                    /\ id \in ToolUseIDsAt(ms, 2..(keepFrom - 1))}
  IN IF found = {} THEN keepFrom
     ELSE LET first == CHOOSE p \in found : \A q \in found : Before(p, q)
              id == ms[first[1]].content[first[2]].id
              js == {j \in 2..(keepFrom - 1) : id \in ToolUseIDsAt(ms, {j})}
          IN CHOOSE j \in js : \A j2 \in js : j2 <= j

RECURSIVE truncateFixedPoint(_, _, _)
truncateFixedPoint(ms, keepFrom, iteration) ==
  IF iteration >= truncateSafetyLimit THEN keepFrom
  ELSE LET next == truncateStep(ms, keepFrom) IN
         IF next = keepFrom THEN keepFrom
         ELSE truncateFixedPoint(ms, next, iteration + 1)

\* truncateMessages: messages[0] and the suffix from the fixed point keepFrom
truncateMessages_KeepAll(ms, maxMessages) == ms
truncateMessages(ms, maxMessages) ==
  IF Len(ms) <= maxMessages THEN ms
  ELSE LET ideal == Len(ms) - maxMessages + 2
           start == IF ideal < 2 THEN 2 ELSE ideal
           keepFrom == truncateFixedPoint(ms, start, 0)
       IN <<ms[1]>> \o SubSeq(ms, keepFrom, Len(ms))

\* ensureToolPairsIntact: the older messages holding a tool-use that a
\* tool-result of the recent messages refers to are put back before them
ensureToolPairsIntact_NoReattach(recentMessages, olderMessages) == recentMessages
ensureToolPairsIntact(recentMessages, olderMessages) ==
  LET recentToolUseIDs == ToolUseIDsAt(recentMessages, 1..Len(recentMessages))
      orphanedResults ==
        {recentMessages[p[1]].content[p[2]].id :
           p \in {q \in ToolResultsAt(recentMessages, 1..Len(recentMessages)) :
                    LET id == recentMessages[q[1]].content[q[2]].id IN
                      id # EmptyID /\ id \notin recentToolUseIDs}}
      hasNeededToolUse(msg) ==
        \E k \in 1..Len(msg.content) :
          msg.content[k].type = "tool_use" /\ msg.content[k].id \in orphanedResults
      toolUseMessages == SelectSeq(olderMessages, hasNeededToolUse)
  IN IF orphanedResults = {} THEN recentMessages
     ELSE toolUseMessages \o recentMessages

\* AgentResponse.HasToolUse
HasToolUse_StopReasonOnly(stop, content) == stop = "tool_use"
HasToolUse(stop, content) == stop = "tool_use" \/ Len(GetToolUses(content)) > 0

\* the "[Conversation Summary ...]" assistant message of Compact
SummaryMessage == NewTextMessage("assistant")

\* Compactor.ShouldCompact
ShouldCompact(config, ms) == config.Enabled /\ Len(ms) > config.Threshold

\* Compactor.Compact; summaryOK: generateSummary returned a non-empty summary.
\* Every return of Compact carries a nil error.
Compact_FallbackKeepsOneMore(config, ms, summaryOK) ==
  IF Len(ms) <= config.KeepRecent + 1 THEN ms
  ELSE LET summarizeEnd == Len(ms) - config.KeepRecent IN
    IF summarizeEnd <= 1 THEN ms
    ELSE IF ~summaryOK THEN truncateMessages(ms, config.KeepRecent + 2)
    ELSE <<ms[1], SummaryMessage>>
           \o ensureToolPairsIntact(SubSeq(ms, summarizeEnd + 1, Len(ms)),
                                    SubSeq(ms, 1, summarizeEnd))
Compact(config, ms, summaryOK) ==
  IF Len(ms) <= config.KeepRecent + 1 THEN ms
  ELSE LET summarizeEnd == Len(ms) - config.KeepRecent IN
    IF summarizeEnd <= 1 THEN ms
    ELSE IF ~summaryOK THEN truncateMessages(ms, config.KeepRecent + 1)
    ELSE <<ms[1], SummaryMessage>>
           \o ensureToolPairsIntact(SubSeq(ms, summarizeEnd + 1, Len(ms)),
                                    SubSeq(ms, 1, summarizeEnd))

\* Run: maxIterations and maxMessages after the defaults are applied
maxIterations_OffByOne ==
  (IF reqMaxIterations <= 0 THEN defaultMaxIterations ELSE reqMaxIterations) + 1
maxIterations == IF reqMaxIterations <= 0 THEN defaultMaxIterations ELSE reqMaxIterations
maxMessages == IF reqMaxMessages <= 0 THEN defaultMaxMessages ELSE reqMaxMessages

\* The id repair of Run over the blocks content[i..]: an empty or already seen
\* tool-use id is replaced by a generated one, every id is recorded as seen.
RECURSIVE repairToolUseIDs(_, _, _, _)
repairToolUseIDs(content, i, seen, gen) ==
  IF i > Len(content) THEN [content |-> content, seen |-> seen, gen |-> gen]
  ELSE IF content[i].type # "tool_use" THEN repairToolUseIDs(content, i + 1, seen, gen)
  ELSE IF content[i].id = EmptyID \/ content[i].id \in seen
    THEN LET newID == generateToolUseID(gen + 1) IN
           repairToolUseIDs([content EXCEPT ![i].id = newID], i + 1,
                            seen \cup {newID}, gen + 1)
    ELSE repairToolUseIDs(content, i + 1, seen \cup {content[i].id}, gen)

\* buildToolResultMessage over the results of executeTools: one tool-result
\* per tool-use, in order, each carrying the id of its tool-use
buildToolResultMessage_DropLast(uses) ==
  [role |-> "user", content |-> [k \in 1..(Len(uses) - 1) |-> ToolResultBlock(uses[k].id)]]
buildToolResultMessage(uses) ==
  [role |-> "user", content |-> [k \in 1..Len(uses) |-> ToolResultBlock(uses[k].id)]]

\* the contents a provider response may have: a text block, or up to MaxUses
\* tool-use blocks with any ids, empty and repeated ones included
ProviderContents ==
  {<<TextBlock>>} \cup
  UNION {{[k \in 1..n |-> ToolUseBlock(ids[k])] : ids \in [1..n -> 0..MaxProviderID]} :
           n \in 1..MaxUses}

StopReasons == {"end_turn", "tool_use", "max_tokens", "stop_sequence"}

CompactConfigs ==
  {[Enabled |-> FALSE, Threshold |-> 1, KeepRecent |-> 0]} \cup
  [Enabled : {TRUE}, Threshold : 1..MaxThreshold, KeepRecent : 0..MaxKeepRecent]

\* Run after NewState(req.InitialMessages): both callers pass one user text message
LoopStart ==
  /\ reqMaxIterations \in 0..MaxIterationsCfg
  /\ reqMaxMessages \in 0..MaxMessagesCfg
  /\ reqCompact \in CompactConfigs
  /\ loopPc = "top"
  /\ messages = <<NewTextMessage("user")>>
  /\ iterations = 0
  /\ seenToolUseIDs = {}
  /\ generated = 0
  /\ sent = <<>>
  /\ calls = 0
  /\ toolUsesAdded = 0
  /\ lastResponse = [content |-> <<>>, stop |-> "none"]
  /\ loopCtxDone = FALSE
  /\ loopResult = "none"

\* the agent loop when it is not under study
LoopIdle ==
  /\ reqMaxIterations = 0
  /\ reqMaxMessages = 0
  /\ reqCompact = [Enabled |-> FALSE, Threshold |-> 1, KeepRecent |-> 0]
  /\ loopPc = "idle"
  /\ messages = <<>>
  /\ iterations = 0
  /\ seenToolUseIDs = {}
  /\ generated = 0
  /\ sent = <<>>
  /\ calls = 0
  /\ toolUsesAdded = 0
  /\ lastResponse = [content |-> <<>>, stop |-> "none"]
  /\ loopCtxDone = FALSE
  /\ loopResult = "none"

\* select { case <-ctx.Done(): return ...; default: } at the head of an iteration
cancelObserved_Never == FALSE
cancelObserved == loopCtxDone

\* The head of one iteration: the cancellation check, IncrementIteration, and
\* the history management that yields the messages of the request.
LoopIterate ==
  /\ loopPc = "top"
  /\ iterations < maxIterations
  /\ cancelObserved \/ iterations < IterCap
  /\ IF cancelObserved THEN
       /\ loopPc' = "done"
       /\ loopResult' = "cancelled"
       /\ UNCHANGED <<messages, iterations, sent>>
     ELSE
       \E summaryOK \in BOOLEAN :
         \E compacted \in {IF ShouldCompact(reqCompact, messages)
                              THEN Compact(reqCompact, messages, summaryOK)
                              ELSE messages} :
           \E truncated \in {IF Len(compacted) > maxMessages
                                THEN truncateMessages(compacted, maxMessages)
                                ELSE compacted} :
            /\ iterations' = iterations + 1
            /\ messages' = compacted
            /\ sent' = IF validateToolPairs(truncated) THEN truncated ELSE compacted
            /\ loopPc' = "call"
            /\ UNCHANGED loopResult
  /\ UNCHANGED <<reqMaxIterations, reqMaxMessages, reqCompact, seenToolUseIDs, generated,
                 calls, toolUsesAdded, lastResponse, loopCtxDone, notLoopVars>>

\* l.Provider.Call fails (a provider failure, or the ctx cancelled under it).
ProviderCallFails ==
  /\ loopPc = "call"
  /\ calls' = calls + 1
  /\ loopPc' = "done"
  /\ loopResult' = "call_failed"
  /\ UNCHANGED <<reqMaxIterations, reqMaxMessages, reqCompact, messages, iterations,
                 seenToolUseIDs, generated, sent, toolUsesAdded, lastResponse,
                 loopCtxDone, notLoopVars>>

\* l.Provider.Call returns a response: id repair, the assistant message is
\* appended, and the stop reason decides how the loop goes on.
ProviderCallReturns ==
  /\ loopPc = "call"
  /\ \E content \in ProviderContents, stop \in StopReasons :
       LET rep == repairToolUseIDs(content, 1, seenToolUseIDs, generated)
           uses == GetToolUses(rep.content)
       IN /\ calls' = calls + 1
          /\ seenToolUseIDs' = rep.seen
          /\ generated' = rep.gen
          /\ lastResponse' = [content |-> rep.content, stop |-> stop]
          /\ messages' = Append(messages, [role |-> "assistant", content |-> rep.content])
          /\ toolUsesAdded' = toolUsesAdded + Len(uses)
          /\ IF stop = "end_turn" THEN loopPc' = "done" /\ loopResult' = "success"
             ELSE IF stop = "max_tokens" THEN loopPc' = "done" /\ loopResult' = "max_tokens"
             ELSE IF stop = "tool_use" \/ HasToolUse(stop, rep.content)
               THEN loopPc' = "tools" /\ UNCHANGED loopResult
             ELSE loopPc' = "top" /\ UNCHANGED loopResult
  /\ UNCHANGED <<reqMaxIterations, reqMaxMessages, reqCompact, iterations, sent,
                 loopCtxDone, notLoopVars>>

\* executeTools and buildToolResultMessage: the tool-result message is appended.
ExecuteTools ==
  /\ loopPc = "tools"
  /\ messages' = Append(messages, buildToolResultMessage(GetToolUses(lastResponse.content)))
  /\ loopPc' = "top"
  /\ UNCHANGED <<reqMaxIterations, reqMaxMessages, reqCompact, iterations, seenToolUseIDs,
                 generated, sent, calls, toolUsesAdded, lastResponse, loopCtxDone,
                 loopResult, notLoopVars>>

\* The loop condition fails: Run returns the max-iterations error.
LoopMaxIterations ==
  /\ loopPc = "top"
  /\ iterations >= maxIterations
  /\ loopPc' = "done"
  /\ loopResult' = "max_iterations"
  /\ UNCHANGED <<reqMaxIterations, reqMaxMessages, reqCompact, messages, iterations,
                 seenToolUseIDs, generated, sent, calls, toolUsesAdded, lastResponse,
                 loopCtxDone, notLoopVars>>

\* The caller cancels the ctx of Run.
LoopCancel ==
  /\ loopPc \in {"top", "call", "tools"}
  /\ ~loopCtxDone
  /\ loopCtxDone' = TRUE
  /\ UNCHANGED <<reqMaxIterations, reqMaxMessages, reqCompact, loopPc, messages, iterations,
                 seenToolUseIDs, generated, sent, calls, toolUsesAdded, lastResponse,
                 loopResult, notLoopVars>>

LoopNext ==
  \/ LoopIterate
  \/ ProviderCallFails
  \/ ProviderCallReturns
  \/ ExecuteTools
  \/ LoopMaxIterations
  \/ LoopCancel

-----------------------------------------------------------------------------
(* internal/service/workflow/engine.go: handleIssue and handlePROptimize *)

\* config.Load: the defaults of the three status labels
NeedsInfoLabel == "ai-needs-info"
InProgressLabel == "ai-in-progress"
DoneLabel == "ai-done"

\* the names TRIGGER_LABELS is drawn from (the default "ai-ready" among them)
TriggerLabelNames == {"ai-ready", "ai-go"}

\* the labels an issue may carry: those of the configuration and one that
\* the automation knows nothing of
LabelNames == TriggerLabelNames \cup {NeedsInfoLabel, InProgressLabel, DoneLabel, "bug"}

\* llm.Decision values of a response
Decisions == {"proceed", "needs_info", "stop"}

\* updateProgressLabels over label sets; "" is the empty label name
updateProgressLabels_KeepAll(current, add, remove) ==
  current \cup (IF add # "" THEN {add} ELSE {})
updateProgressLabels(current, add, remove) ==
  LET removeSet == {label \in remove : label # ""} IN
    (current \ removeSet) \cup (IF add # "" THEN {add} ELSE {})

\* the steps of handleIssue and of handlePROptimize that only fail or
\* succeed, each with the step that follows it
IssueNextStep_SkipInProgress ==
  [x \in {"parse-repo-info", "get-issue-comments", "prepare-workspace", "set-remote-auth",
          "get-default-branch", "checkout-branch", "prepare-llm-prompt"} |->
     CASE x = "parse-repo-info" -> "get-issue-details"
       [] x = "get-issue-comments" -> "prepare-workspace"
       [] x = "prepare-workspace" -> "set-remote-auth"
       [] x = "set-remote-auth" -> "get-default-branch"
       [] x = "get-default-branch" -> "checkout-branch"
       [] x = "checkout-branch" -> "prepare-llm-prompt"
       [] x = "prepare-llm-prompt" -> "run-llm"]
IssueNextStep ==
  [x \in {"parse-repo-info", "get-issue-comments", "prepare-workspace", "set-remote-auth",
          "get-default-branch", "checkout-branch", "prepare-llm-prompt"} |->
     CASE x = "parse-repo-info" -> "get-issue-details"
       [] x = "get-issue-comments" -> "prepare-workspace"
       [] x = "prepare-workspace" -> "set-remote-auth"
       [] x = "set-remote-auth" -> "get-default-branch"
       [] x = "get-default-branch" -> "checkout-branch"
       [] x = "checkout-branch" -> "update-labels-in-progress"
       [] x = "prepare-llm-prompt" -> "run-llm"]

PRNextStep_WithInProgressLabel ==
  [x \in {"parse-repo-info", "prepare-workspace", "set-remote-auth", "checkout-branch",
          "prepare-llm-prompt"} |->
     CASE x = "parse-repo-info" -> "get-pr-details"
       [] x = "prepare-workspace" -> "set-remote-auth"
       [] x = "set-remote-auth" -> "checkout-branch"
       [] x = "checkout-branch" -> "update-labels-in-progress"
       [] x = "prepare-llm-prompt" -> "run-llm"]
PRNextStep ==
  [x \in {"parse-repo-info", "prepare-workspace", "set-remote-auth", "checkout-branch",
          "prepare-llm-prompt"} |->
     CASE x = "parse-repo-info" -> "get-pr-details"
       [] x = "prepare-workspace" -> "set-remote-auth"
       [] x = "set-remote-auth" -> "checkout-branch"
       [] x = "checkout-branch" -> "prepare-llm-prompt"
       [] x = "prepare-llm-prompt" -> "run-llm"]

NextStep == IF wfKind = "issue" THEN IssueNextStep ELSE PRNextStep

\* what a workflow run has done on the platform and in the repository
effectVars == <<platformLabels, labelWrites, comments, commits, pushes, pushedCommits,
                prOpened, prBodyUpdated, assigneesAdded>>

\* the inputs of a run
engineInputs == <<wfKind, cfgTriggerLabels, assignSender, handler, event, itemOpen>>

\* what a workflow run has done on the local disk and with the LLM
runVars == <<workspaceCreated, llmCalled>>

\* the handler returns err (an error) or nil
Return_SwallowError(err) ==
  /\ enginePc' = "returned"
  /\ engineReturn' = "nil"
Return(err) ==
  /\ enginePc' = "returned"
  /\ engineReturn' = IF err THEN "error" ELSE "nil"

\* CreateIssueComment(kind) as the last call of a return statement
ReturnCreateIssueComment(kind) ==
  \E ok \in BOOLEAN :
    /\ comments' = IF ok THEN Append(comments, kind) ELSE comments
    /\ Return(~ok)

\* webhook.EventType
EventIssues == "issues"
EventIssueComment == "issue_comment"
EventPRComment == "pull_request_review_comment"

\* the methods of the Engine the worker calls, by the type of the event
Handlers == {"HandleIssueLabel", "HandleIssueComment", "HandlePRComment"}

\* cfg.PRSlashCommands
PRSlashCommands == <<"", "/optimize">>

RECURSIVE findSlashCommand(_, _)
\* findSlashCommand: the first configured command, not empty, that the comment
\* body contains, or ""
findSlashCommand(body, commands) ==
  IF commands = <<>> THEN ""
  ELSE IF Head(commands) # "" /\ Head(commands) \in body THEN Head(commands)
  ELSE findSlashCommand(body, Tail(commands))

NoEvent ==
  [type |-> "", action |-> "", present |-> FALSE, state |-> "", label |-> "", body |-> {}]

\* the events a handler is called with; a field the handler does not read has
\* one value
EventsFor(h) ==
  [type : {EventIssues, EventIssueComment, EventPRComment},
   action : {"labeled", "created"},
   present : BOOLEAN,
   state : IF h = "HandlePRComment" THEN {""} ELSE {"open", "closed"},
   label : IF h = "HandleIssueLabel" THEN TriggerLabelNames \cup {"bug"} ELSE {""},
   body : IF h = "HandlePRComment" THEN {{}, {"/optimize"}, {"/other"}} ELSE {{}}]

\* the checks of HandleIssueLabel, HandleIssueComment and HandlePRComment before
\* the workflow starts: "nil" and "error" return, "run" starts the workflow
Precondition_AlwaysRun(h, ev, triggers) == "run"
Precondition(h, ev, triggers) ==
  IF h = "HandleIssueLabel" THEN
    IF ev.type # EventIssues THEN "nil"
    ELSE IF ev.action # "labeled" THEN "nil"
    ELSE IF ~ev.present THEN "error"
    ELSE IF ev.state # "open" THEN "nil"
    ELSE IF ev.label \notin triggers THEN "nil"
    ELSE "run"
  ELSE IF h = "HandleIssueComment" THEN
    IF ev.type # EventIssueComment THEN "nil"
    ELSE IF ev.action # "created" THEN "nil"
    ELSE IF ~ev.present THEN "error"
    ELSE IF ev.state # "open" THEN "nil"
    ELSE "run"
  ELSE
    IF ev.type # EventPRComment THEN "nil"
    ELSE IF ev.action # "created" THEN "nil"
    ELSE IF ~ev.present THEN "error"
    ELSE IF findSlashCommand(ev.body, PRSlashCommands) = "" THEN "nil"
    ELSE "run"

\* a handler is entered with its event; the run starts when the mux calls it
EngineStart ==
  /\ wfKind \in {"issue", "pr"}
  /\ cfgTriggerLabels \in (SUBSET TriggerLabelNames) \ {{}}
  /\ assignSender \in BOOLEAN
  /\ platformLabels \in SUBSET LabelNames
  /\ issueLabels = {}
  /\ handler \in Handlers
  /\ wfKind = (IF handler = "HandlePRComment" THEN "pr" ELSE "issue")
  /\ handler # "HandleIssueLabel" => ~assignSender
  /\ event \in EventsFor(handler)
  /\ itemOpen \in BOOLEAN
  /\ workspaceCreated = FALSE
  /\ llmCalled = FALSE
  /\ enginePc = "handler"
  /\ outcome = [decision |-> "none", files |-> FALSE, patch |-> FALSE, agentWrote |-> FALSE]
  /\ worktreeDirty = FALSE
  /\ labelWrites = <<>>
  /\ comments = <<>>
  /\ commits = 0
  /\ pushes = 0
  /\ pushedCommits = 0
  /\ prOpened = FALSE
  /\ prBodyUpdated = FALSE
  /\ assigneesAdded = FALSE
  /\ engineReturn = "none"

\* the workflow engine when it is not under study
EngineIdle ==
  /\ wfKind = "idle"
  /\ cfgTriggerLabels = {"ai-ready"}
  /\ assignSender = FALSE
  /\ platformLabels = {}
  /\ issueLabels = {}
  /\ handler = "none"
  /\ event = NoEvent
  /\ itemOpen = FALSE
  /\ workspaceCreated = FALSE
  /\ llmCalled = FALSE
  /\ enginePc = "returned"
  /\ outcome = [decision |-> "none", files |-> FALSE, patch |-> FALSE, agentWrote |-> FALSE]
  /\ worktreeDirty = FALSE
  /\ labelWrites = <<>>
  /\ comments = <<>>
  /\ commits = 0
  /\ pushes = 0
  /\ pushedCommits = 0
  /\ prOpened = FALSE
  /\ prBodyUpdated = FALSE
  /\ assigneesAdded = FALSE
  /\ engineReturn = "none"

\* HandleIssueLabel / HandleIssueComment / HandlePRComment up to the call of
\* handleIssue / handlePROptimize
Dispatch ==
  /\ enginePc = "handler"
  /\ \E p \in {Precondition(handler, event, cfgTriggerLabels)} :
       IF p = "run"
       THEN enginePc' = "parse-repo-info" /\ UNCHANGED engineReturn
       ELSE Return(p = "error")
  /\ UNCHANGED <<engineInputs, runVars, issueLabels, outcome, worktreeDirty, effectVars,
                 notEngineVars>>

\* a step without an effect on the platform or the branch: it fails, and the
\* handler returns the wrapped error, or the next step is reached
PlainStep ==
  /\ wfKind \in {"issue", "pr"}
  /\ enginePc \in DOMAIN NextStep
  /\ \/ /\ Return(TRUE)
        /\ IF enginePc = "prepare-workspace"
           THEN workspaceCreated' \in BOOLEAN   \* MkdirAll or Clone failed
           ELSE UNCHANGED workspaceCreated
     \/ /\ enginePc' = NextStep[enginePc]
        /\ workspaceCreated' = (workspaceCreated \/ enginePc = "prepare-workspace")
        /\ UNCHANGED engineReturn
  /\ UNCHANGED <<engineInputs, llmCalled, issueLabels, outcome, worktreeDirty, effectVars, notEngineVars>>

\* GetIssue / GetPR: an error, an item that is not open (return nil), or the
\* item with the labels it carries
GetDetails ==
  /\ enginePc \in {"get-issue-details", "get-pr-details"}
  /\ \/ Return(TRUE) /\ UNCHANGED issueLabels
     \/ ~itemOpen /\ Return(FALSE) /\ UNCHANGED issueLabels
     \/ /\ itemOpen
        /\ enginePc' = IF wfKind = "issue" THEN "get-issue-comments" ELSE "prepare-workspace"
        /\ issueLabels' = IF wfKind = "issue" THEN platformLabels ELSE issueLabels
        /\ UNCHANGED engineReturn
  /\ UNCHANGED <<engineInputs, runVars, outcome, worktreeDirty, effectVars, notEngineVars>>

\* SetIssueLabels(labels) of step `step`; ok: the platform accepted the write
SetIssueLabels(step, labels, ok) ==
  /\ platformLabels' = IF ok THEN labels ELSE platformLabels
  /\ labelWrites' = IF ok THEN Append(labelWrites, [step |-> step, labels |-> labels])
                          ELSE labelWrites

\* handleIssue step 8
UpdateLabelsInProgress ==
  /\ enginePc = "update-labels-in-progress"
  /\ LET labelsToRemove == {DoneLabel, NeedsInfoLabel} \cup cfgTriggerLabels
         labels == updateProgressLabels(issueLabels, InProgressLabel, labelsToRemove)
     IN \E ok \in BOOLEAN :
          /\ SetIssueLabels("update-labels-in-progress", labels, ok)
          /\ IF ok THEN enginePc' = "prepare-llm-prompt" /\ UNCHANGED engineReturn
                   ELSE Return(TRUE)
  /\ UNCHANGED <<engineInputs, runVars, issueLabels, outcome, worktreeDirty, comments, commits, pushes,
                 pushedCommits, prOpened, prBodyUpdated, assigneesAdded, notEngineVars>>

\* e.llm.Run: an error (a best-effort "Automation failed" comment, then the
\* error is returned), or a response; agentWrote: the agent's tools changed a
\* file of the checkout that is not an automation artifact
RunLLM ==
  /\ enginePc = "run-llm"
  /\ llmCalled' = TRUE
  /\ \/ /\ \E posted \in BOOLEAN :
             comments' = IF posted THEN Append(comments, "failed") ELSE comments
        /\ Return(TRUE)
        /\ UNCHANGED <<outcome, worktreeDirty>>
     \/ /\ \E decision \in Decisions, files, patch, agentWrote \in BOOLEAN :
             /\ outcome' = [decision |-> decision, files |-> files, patch |-> patch,
                             agentWrote |-> agentWrote]
             /\ worktreeDirty' = agentWrote
        /\ enginePc' = "check-decision"
        /\ UNCHANGED <<comments, engineReturn>>
  /\ UNCHANGED <<engineInputs, workspaceCreated, issueLabels, platformLabels, labelWrites, commits, pushes,
                 pushedCommits, prOpened, prBodyUpdated, assigneesAdded, notEngineVars>>

\* the check of the decision: handleIssue step 11, handlePROptimize step 8
CheckDecision_AlwaysProceed ==
  /\ enginePc = "check-decision"
  /\ enginePc' = "apply-changes"
  /\ UNCHANGED <<engineInputs, runVars, issueLabels, outcome, worktreeDirty, effectVars,
                 engineReturn, notEngineVars>>
CheckDecision ==
  /\ enginePc = "check-decision"
  /\ IF outcome.decision = "proceed" THEN
       /\ enginePc' = "apply-changes"
       /\ UNCHANGED <<engineReturn, platformLabels, labelWrites, comments>>
     ELSE IF wfKind = "issue" THEN
       /\ IF NeedsInfoLabel # "" THEN
            LET labelsToRemove == {InProgressLabel, DoneLabel} \cup cfgTriggerLabels
                labels == updateProgressLabels(issueLabels, NeedsInfoLabel, labelsToRemove)
            IN \E ok \in BOOLEAN : SetIssueLabels("check-decision", labels, ok)
          ELSE UNCHANGED <<platformLabels, labelWrites>>
       /\ ReturnCreateIssueComment("needs-info")
     ELSE
       /\ ReturnCreateIssueComment("stopped")
       /\ UNCHANGED <<platformLabels, labelWrites>>
  /\ UNCHANGED <<engineInputs, runVars, issueLabels, outcome, worktreeDirty, commits, pushes,
                 pushedCommits, prOpened, prBodyUpdated, assigneesAdded, notEngineVars>>

\* applyChanges: the files of the map are written, else the patch is applied,
\* else nothing is done; changed: what was written differs from the checkout
\* in a file that is not an automation artifact
ApplyChanges ==
  /\ enginePc = "apply-changes"
  /\ IF outcome.files \/ outcome.patch THEN
       \/ Return(TRUE) /\ UNCHANGED worktreeDirty
       \/ /\ \E changed \in BOOLEAN : worktreeDirty' = (worktreeDirty \/ changed)
          /\ enginePc' = IF wfKind = "issue" THEN "check-for-changes" ELSE "commit-changes"
          /\ UNCHANGED engineReturn
     ELSE
       /\ enginePc' = IF wfKind = "issue" THEN "check-for-changes" ELSE "commit-changes"
       /\ UNCHANGED <<worktreeDirty, engineReturn>>
  /\ UNCHANGED <<engineInputs, runVars, issueLabels, outcome, effectVars, notEngineVars>>

\* gitutil HasChanges
HasChanges_AlwaysTrue == TRUE
HasChanges == worktreeDirty

\* handleIssue step 13
CheckForChanges ==
  /\ enginePc = "check-for-changes"
  /\ \/ Return(TRUE) /\ UNCHANGED comments
     \/ IF ~HasChanges THEN ReturnCreateIssueComment("no-change")
        ELSE enginePc' = "commit-changes" /\ UNCHANGED <<comments, engineReturn>>
  /\ UNCHANGED <<engineInputs, runVars, issueLabels, outcome, worktreeDirty, platformLabels,
                 labelWrites, commits, pushes, pushedCommits, prOpened, prBodyUpdated,
                 assigneesAdded, notEngineVars>>

\* gitutil CommitAll: nil without a commit when nothing is to be staged
CommitAll ==
  /\ enginePc = "commit-changes"
  /\ \/ Return(TRUE) /\ UNCHANGED <<commits, worktreeDirty>>
     \/ /\ commits' = IF worktreeDirty THEN commits + 1 ELSE commits
        /\ worktreeDirty' = FALSE
        /\ enginePc' = "push-changes"
        /\ UNCHANGED engineReturn
  /\ UNCHANGED <<engineInputs, runVars, issueLabels, outcome, platformLabels, labelWrites, comments,
                 pushes, pushedCommits, prOpened, prBodyUpdated, assigneesAdded,
                 notEngineVars>>

\* gitutil Push: `git push origin <branch>`
Push ==
  /\ enginePc = "push-changes"
  /\ \/ Return(TRUE) /\ UNCHANGED <<pushes, pushedCommits>>
     \/ /\ pushes' = pushes + 1
        /\ pushedCommits' = commits
        /\ enginePc' = IF wfKind = "issue" THEN "create-pr" ELSE "update-pr-body"
        /\ UNCHANGED engineReturn
  /\ UNCHANGED <<engineInputs, runVars, issueLabels, outcome, worktreeDirty, platformLabels,
                 labelWrites, comments, commits, prOpened, prBodyUpdated, assigneesAdded,
                 notEngineVars>>

\* handleIssue step 16
CreatePR ==
  /\ enginePc = "create-pr"
  /\ \/ Return(TRUE) /\ UNCHANGED prOpened
     \/ /\ prOpened' = TRUE
        /\ enginePc' = "add-assignees"
        /\ UNCHANGED engineReturn
  /\ UNCHANGED <<engineInputs, runVars, issueLabels, outcome, worktreeDirty, platformLabels,
                 labelWrites, comments, commits, pushes, pushedCommits, prBodyUpdated,
                 assigneesAdded, notEngineVars>>

\* handleIssue step 17: attempted when requireLabeler && event.Sender != "";
\* a failure is logged and the run goes on
AddAssignees ==
  /\ enginePc = "add-assignees"
  /\ IF assignSender THEN \E ok \in BOOLEAN : assigneesAdded' = ok
                     ELSE UNCHANGED assigneesAdded
  /\ enginePc' = "update-labels-done"
  /\ UNCHANGED <<engineInputs, runVars, issueLabels, outcome, worktreeDirty, platformLabels,
                 labelWrites, comments, commits, pushes, pushedCommits, prOpened,
                 prBodyUpdated, engineReturn, notEngineVars>>

\* handleIssue step 18
UpdateLabelsDone ==
  /\ enginePc = "update-labels-done"
  /\ LET labelsToRemove == {InProgressLabel, NeedsInfoLabel} \cup cfgTriggerLabels
         labels == updateProgressLabels(issueLabels, DoneLabel, labelsToRemove)
     IN \E ok \in BOOLEAN :
          /\ SetIssueLabels("update-labels-done", labels, ok)
          /\ IF ok THEN enginePc' = "post-completion-comment" /\ UNCHANGED engineReturn
                   ELSE Return(TRUE)
  /\ UNCHANGED <<engineInputs, runVars, issueLabels, outcome, worktreeDirty, comments, commits, pushes,
                 pushedCommits, prOpened, prBodyUpdated, assigneesAdded, notEngineVars>>

\* handlePROptimize step 12
UpdatePRBody ==
  /\ enginePc = "update-pr-body"
  /\ \/ Return(TRUE) /\ UNCHANGED prBodyUpdated
     \/ /\ prBodyUpdated' = TRUE
        /\ enginePc' = "post-completion-comment"
        /\ UNCHANGED engineReturn
  /\ UNCHANGED <<engineInputs, runVars, issueLabels, outcome, worktreeDirty, platformLabels,
                 labelWrites, comments, commits, pushes, pushedCommits, prOpened,
                 assigneesAdded, notEngineVars>>

\* the last step: "Automation completed. PR: ..." on the issue, or
\* "Automation applied: <slash>" on the PR
PostCompletionComment ==
  /\ enginePc = "post-completion-comment"
  /\ ReturnCreateIssueComment(IF wfKind = "issue" THEN "completed" ELSE "applied")
  /\ UNCHANGED <<engineInputs, runVars, issueLabels, outcome, worktreeDirty, platformLabels,
                 labelWrites, commits, pushes, pushedCommits, prOpened, prBodyUpdated,
                 assigneesAdded, notEngineVars>>

EngineNext ==
  \/ Dispatch
  \/ PlainStep
  \/ GetDetails
  \/ UpdateLabelsInProgress
  \/ RunLLM
  \/ CheckDecision
  \/ ApplyChanges
  \/ CheckForChanges
  \/ CommitAll
  \/ Push
  \/ CreatePR
  \/ AddAssignees
  \/ UpdateLabelsDone
  \/ UpdatePRBody
  \/ PostCompletionComment

-----------------------------------------------------------------------------
(* The path check of the built-in tools: pkg/tools, ToolContext.ValidatePath *)

\* A path is [abs, segs]: whether it starts with the separator, and its elements
\* between separators.  The empty relative path stands for "" and for ".".
Path(abs, segs) == [abs |-> abs, segs |-> segs]

\* the elements a path is made of: two directory names, the two special
\* elements, and a name whose first two characters are dots
PathElems == {"c", "w", "a", "..", ".", "..a"}

\* the elements s with strings.HasPrefix(s, "..")
DotDotPrefixed == {"..", "..a"}

\* the process's working directory, which filepath.Abs prepends to a relative path
Getwd == Path(TRUE, <<"c">>)

RECURSIVE CleanFold(_, _, _)
\* filepath.Clean, element by element: "." is dropped, ".." removes the element
\* before it, is dropped at the root and is kept at the head of a relative path
CleanFold(out, rest, abs) ==
  IF rest = <<>> THEN out
  ELSE LET s == Head(rest) IN
       IF s = "." THEN CleanFold(out, Tail(rest), abs)
       ELSE IF s = ".."
            THEN IF out # <<>> /\ out[Len(out)] # ".."
                 THEN CleanFold(SubSeq(out, 1, Len(out) - 1), Tail(rest), abs)
                 ELSE IF abs THEN CleanFold(out, Tail(rest), abs)
                      ELSE CleanFold(Append(out, ".."), Tail(rest), abs)
            ELSE CleanFold(Append(out, s), Tail(rest), abs)

Clean(p) == Path(p.abs, CleanFold(<<>>, p.segs, p.abs))

\* filepath.Join(a, b): the two joined by a separator, then cleaned
Join(a, b) == Clean(Path(a.abs, a.segs \o b.segs))

\* filepath.Abs
Abs(p) == IF p.abs THEN Clean(p) ELSE Join(Getwd, p)

\* number of leading elements base and targ have in common
CommonPrefix(base, targ) ==
  CHOOSE k \in 0..Len(base) :
    /\ k <= Len(targ)
    /\ SubSeq(base, 1, k) = SubSeq(targ, 1, k)
    /\ \/ k = Len(base)
       \/ k = Len(targ)
       \/ base[k + 1] # targ[k + 1]

\* filepath.Rel(base, targ): [err, segs]; an absolute and a relative path cannot
\* be made relative to each other
Rel(base, targ) ==
  LET b == Clean(base)
      t == Clean(targ)
      k == CommonPrefix(b.segs, t.segs)
  IN IF b.abs # t.abs
     THEN [err |-> TRUE, segs |-> <<>>]
     ELSE [err |-> FALSE,
           segs |-> [i \in 1..(Len(b.segs) - k) |-> ".."]
                    \o SubSeq(t.segs, k + 1, Len(t.segs))]

\* strings.HasPrefix(rel, ".."): the relative path's text starts with two dots
HasDotDotPrefix(segs) == segs # <<>> /\ segs[1] \in DotDotPrefixed

\* ToolContext.ValidatePath: [ok, absPath]
ValidatePath(workDir, path) ==
  IF workDir = Path(FALSE, <<>>)
  THEN [ok |-> FALSE, absPath |-> Path(FALSE, <<>>)]          \* ErrNoWorkDir
  ELSE LET absPath == IF path.abs THEN Clean(path) ELSE Join(workDir, path)
           absWorkDir == Clean(Abs(workDir))
           rel == Rel(absWorkDir, absPath)
       IN IF rel.err \/ HasDotDotPrefix(rel.segs)
          THEN [ok |-> FALSE, absPath |-> Path(FALSE, <<>>)]  \* ErrPathOutsideWorkDir
          ELSE [ok |-> TRUE, absPath |-> absPath]

\* the work directories a ToolContext is built with: none, an absolute one, and
\* one under the default clone base "./workdir", which is relative
WorkDirs == {Path(FALSE, <<>>), Path(TRUE, <<"c", "w">>), Path(FALSE, <<"w">>)}

RECURSIVE SeqsUpTo(_, _)
SeqsUpTo(S, n) ==
  IF n = 0 THEN {<<>>}
  ELSE LET shorter == SeqsUpTo(S, n - 1)
       IN shorter \union {Append(q, e) : q \in shorter, e \in S}

\* the paths a tool call may carry
CallerPaths == {Path(abs, segs) : abs \in BOOLEAN, segs \in SeqsUpTo(PathElems, MaxPathLen)}

\* a tool context and the path of the tool input it is about to check
PathStart ==
  /\ toolWorkDir \in WorkDirs
  /\ \E path \in CallerPaths :
       validated = [called |-> FALSE, path |-> path, ok |-> FALSE,
                    absPath |-> Path(FALSE, <<>>)]

\* no tool context exists
PathIdle ==
  /\ toolWorkDir = Path(FALSE, <<>>)
  /\ validated = [called |-> FALSE, path |-> Path(FALSE, <<>>), ok |-> FALSE,
                  absPath |-> Path(FALSE, <<>>)]

\* the built-in tool validates the path of its input
ValidatePathCall ==
  /\ ~validated.called
  /\ \E r \in {ValidatePath(toolWorkDir, validated.path)} :
       validated' = [validated EXCEPT !.called = TRUE, !.ok = r.ok, !.absPath = r.absPath]
  /\ UNCHANGED toolWorkDir
  /\ UNCHANGED notPathVars

PathNext == ValidatePathCall

-----------------------------------------------------------------------------
(* One Call of an LLM provider with its retries: pkg/llm, ClaudeProvider.Call *)
(* and OpenAIProvider.Call                                                  *)

defaultClaudeMaxAttempts == 5
defaultOpenAIMaxAttempts == 5

\* the outcomes of doRequest: a transport error (status 0), or an HTTP status
NoResponse == 0
Statuses == {200, 400, 401, 408, 429, 500, 503, 529}

shouldRetryClaude_Always(status, err) == TRUE
shouldRetryClaude(status, err) ==
  IF err THEN TRUE
  ELSE IF status = 429 \/ status = 408 THEN TRUE
  ELSE IF status = 529 THEN TRUE
  ELSE status >= 500

shouldRetryOpenAI_Always(status, err) == TRUE
shouldRetryOpenAI(status, err) ==
  IF err THEN TRUE
  ELSE IF status = 429 \/ status = 408 THEN TRUE
  ELSE status >= 500

shouldRetry(dialect, status, err) ==
  IF dialect = "claude" THEN shouldRetryClaude(status, err)
  ELSE shouldRetryOpenAI(status, err)

\* maxAttempts of Call
maxAttempts ==
  IF provMaxAttempts < 1
  THEN IF provDialect = "claude" THEN defaultClaudeMaxAttempts
       ELSE defaultOpenAIMaxAttempts
  ELSE provMaxAttempts

\* what the body of the for loop of Call does with the outcome of attempt number
\* attempt: "ok" and "error" return, "running" goes on to the next attempt
AttemptResult(dialect, attempt, status, err, parsed) ==
  IF ~err /\ status < 400
  THEN IF parsed THEN "ok"
       ELSE IF dialect = "claude" /\ attempt < maxAttempts THEN "running"
       ELSE "error"
  ELSE IF attempt = maxAttempts \/ ~shouldRetry(dialect, status, err) THEN "error"
       ELSE "running"

ProviderStart ==
  /\ provDialect \in {"claude", "openai"}
  /\ provMaxAttempts \in 0..MaxAttemptsCfg
  /\ provAttempt = 0
  /\ provLast = [status |-> NoResponse, err |-> FALSE, parsed |-> FALSE]
  /\ provResult = "running"

\* no provider call is under way
ProviderIdle ==
  /\ provDialect = "idle"
  /\ provMaxAttempts = 0
  /\ provAttempt = 0
  /\ provLast = [status |-> NoResponse, err |-> FALSE, parsed |-> FALSE]
  /\ provResult = "idle"

\* one iteration of the for loop of Call: doRequest, then return or back off
ProviderAttempt ==
  /\ provResult = "running"
  /\ provAttempt < maxAttempts
  /\ \E err \in BOOLEAN :
       \E status \in (IF err THEN {NoResponse} ELSE Statuses) :
         \E parsed \in (IF ~err /\ status < 400 THEN BOOLEAN ELSE {FALSE}) :
           /\ provAttempt' = provAttempt + 1
           /\ provLast' = [status |-> status, err |-> err, parsed |-> parsed]
           /\ provResult' = AttemptResult(provDialect, provAttempt + 1, status, err, parsed)
  /\ UNCHANGED <<provDialect, provMaxAttempts>>
  /\ UNCHANGED notProviderVars

ProviderNext == ProviderAttempt

-----------------------------------------------------------------------------
(* Tool registration at start-up: main, createUnifiedAgentRunner; pkg/mcp,   *)
(* MCPServer; pkg/tools, Registry                                            *)

\* A tool name is the sequence of its parts between underscores, so that the
\* name "mcp_<server>_<tool>" is the concatenation of its three parts.
BuiltinTools == {<<"bash">>, <<"read", "file">>, <<"git", "status">>}

\* MCPTool.Name
MCPToolName(serverName, toolName) == <<"mcp">> \o serverName \o toolName

\* the configured servers: their names, what tools/list answers, and the stage
\* at which the server fails
ServerNames == {<<"a">>, <<"a", "b">>}
ToolLists == {<<<<"c">>>>, <<<<"c">>, <<"b", "c">>>>, <<<<"c">>, <<"c">>>>}
FailStages == {"none", "spawn", "initialize", "list"}
ServerConfigs == [name : ServerNames, fails : FailStages, tools : ToolLists]

RECURSIVE RegisterTools(_, _, _)
\* MCPServer.RegisterTools over Registry.Register: the tools are added in order
\* and the first name already present ends the loop with an error
RegisterTools(reg, serverName, tools) ==
  IF tools = <<>> THEN [registry |-> reg, err |-> FALSE]
  ELSE LET name == MCPToolName(serverName, Head(tools))
       IN IF name \in reg THEN [registry |-> reg, err |-> TRUE]
          ELSE RegisterTools(reg \union {name}, serverName, Tail(tools))

\* what the loop over cfg.MCPServers does after a server failed
AfterFailure_Abort == "done"
AfterFailure == "servers"

RegistryStart ==
  /\ cfgToolsEnabled \in BOOLEAN
  /\ cfgMCPServers \in SeqsUpTo(ServerConfigs, MaxServers)
  /\ registry = {}
  /\ regPc = "builtin"
  /\ serverOutcome = <<>>

\* no runner is being built
RegistryIdle ==
  /\ cfgToolsEnabled = FALSE
  /\ cfgMCPServers = <<>>
  /\ registry = {}
  /\ regPc = "idle"
  /\ serverOutcome = <<>>

\* tools.NewRegistry and builtin.RegisterAll
RegisterBuiltins ==
  /\ regPc = "builtin"
  /\ registry' = IF cfgToolsEnabled THEN BuiltinTools ELSE {}
  /\ regPc' = "servers"
  /\ UNCHANGED <<cfgToolsEnabled, cfgMCPServers, serverOutcome>>
  /\ UNCHANGED notRegistryVars

\* one iteration of the loop over cfg.MCPServers: NewMCPServer, Initialize
\* (initialize and tools/list), RegisterTools
RegisterServer ==
  /\ regPc = "servers"
  /\ Len(serverOutcome) < Len(cfgMCPServers)
  /\ \E server \in {cfgMCPServers[Len(serverOutcome) + 1]} :
       IF server.fails # "none"
       THEN /\ serverOutcome' = Append(serverOutcome, server.fails)
            /\ regPc' = AfterFailure
            /\ UNCHANGED registry
       ELSE \E r \in {RegisterTools(registry, server.name, server.tools)} :
              /\ registry' = r.registry
              /\ serverOutcome' = Append(serverOutcome, IF r.err THEN "register" ELSE "ok")
              /\ regPc' = IF r.err THEN AfterFailure ELSE "servers"
  /\ UNCHANGED <<cfgToolsEnabled, cfgMCPServers>>
  /\ UNCHANGED notRegistryVars

\* the loop is over: the registry goes into the agent configuration
RegistryBuilt ==
  /\ regPc = "servers"
  /\ Len(serverOutcome) = Len(cfgMCPServers)
  /\ regPc' = "done"
  /\ UNCHANGED <<cfgToolsEnabled, cfgMCPServers, registry, serverOutcome>>
  /\ UNCHANGED notRegistryVars

RegistryNext ==
  \/ RegisterBuiltins
  \/ RegisterServer
  \/ RegistryBuilt

-----------------------------------------------------------------------------
(* One webhook request from its arrival to its status: pkg/server,          *)
(* Server.handleWebhook; pkg/allowlist; internal/controller/webhook         *)

\* extractClientIP: the parsed address, or nil when the address does not parse
NilIP == "nil"
ClientIPs == {NilIP, "10.0.0.1", "10.0.0.2"}

\* allowlist.Parse of IP_ALLOWLIST, given as its comma-separated parts: the
\* blank value allows all, and empty parts are skipped
AllowlistValues == {<<>>, <<"", "">>, <<"10.0.0.1">>, <<"10.0.0.1", "">>}
AllowlistParse(value) ==
  IF value = <<>> THEN [allowAll |-> TRUE, entries |-> {}]
  ELSE [allowAll |-> FALSE,
        entries |-> {value[i] : i \in {j \in 1..Len(value) : value[j] # ""}}]

\* Allowlist.Allows
Allows(a, ip) ==
  IF a.allowAll THEN TRUE
  ELSE IF ip = NilIP THEN FALSE
  ELSE ip \in a.entries

\* values of the X-GitHub-Event header ("": absent) and kinds of request body
EventHeaders == {"", EventIssues, EventIssueComment, EventPRComment, "push"}
Bodies == {"json", "not json", "read error"}

\* webhook.ParseEvent: whether it returns an error
ParseEvent_AnyEventType(req) == req.event = "" \/ req.body # "json"
ParseEvent(req) ==
  IF req.event = "" THEN TRUE
  ELSE IF req.event \notin {EventIssues, EventIssueComment, EventPRComment} THEN TRUE
  ELSE req.body # "json"

WebhookStart ==
  /\ whAllowlist \in {AllowlistParse(v) : v \in AllowlistValues}
  /\ whRequest \in [method : {"POST", "GET"}, ip : ClientIPs, event : EventHeaders,
                    body : Bodies]
  /\ whJobs \in {[i \in 1..n |-> 0] : n \in 0..QueueCapacity(1)}
  /\ whStatus = 0

\* no request is under way
WebhookIdle ==
  /\ whAllowlist = [allowAll |-> TRUE, entries |-> {}]
  /\ whRequest = [method |-> "GET", ip |-> NilIP, event |-> "", body |-> "json"]
  /\ whJobs = <<>>
  /\ whStatus = 202

\* Server.handleWebhook
ServeWebhook ==
  /\ whStatus = 0
  /\ IF whRequest.method # "POST" THEN
       /\ whStatus' = 405
       /\ UNCHANGED whJobs
     ELSE IF ~Allows(whAllowlist, whRequest.ip) THEN
       /\ whStatus' = 403
       /\ UNCHANGED whJobs
     ELSE IF ParseEvent(whRequest) THEN
       /\ whStatus' = 400
       /\ UNCHANGED whJobs
     ELSE
       \E e \in {Enqueue(whJobs, QueueCapacity(1), 1)} :
         /\ whJobs' = e.jobs
         /\ whStatus' = IF e.err THEN 503 ELSE 202
  /\ UNCHANGED <<whAllowlist, whRequest>>
  /\ UNCHANGED notWebhookVars

WebhookNext == ServeWebhook

-----------------------------------------------------------------------------
(* unnamed/part_005: the tool-call branch of Run, executeTools *)

\* the tools a registry may hold; a response may name any of them
ToolNames == {"read_file", "bash"}

\* what tool.Execute does when it is called: it returns a result and a nil
\* error ("result"), a result with IsError set and a nil error ("error_result"),
\* or a non-nil error ("err")
ExecuteOutcomes == {"result", "error_result", "err"}

\* tools.NewToolResult, tools.NewErrorResult and tools.NewErrorResultf: the
\* IsError field of the ToolResult
NewToolResult == FALSE
NewErrorResult == TRUE
NewErrorResultf == TRUE

\* Registry.Get: TRUE when the returned Tool is not nil
Get(reg, name) == name \in reg

\* the body of the loop of executeTools for one use: the toolExecResult
ExecuteOne(reg, use) ==
  [ID |-> use.id, Name |-> use.name,
   IsError |-> IF ~Get(reg, use.name) THEN NewErrorResultf
               ELSE IF use.exec = "err" THEN NewErrorResult
               ELSE IF use.exec = "error_result" THEN TRUE
               ELSE NewToolResult]

\* the error executeTools returns with its results: `return results, nil`
executeToolsErr_OnErrorResult(results) ==
  \E k \in 1..Len(results) : results[k].IsError
executeToolsErr(results) == FALSE

\* the ContentBlock buildToolResultMessage makes of one toolExecResult
ResultBlock(r) == [type |-> "tool_result", id |-> r.ID, isError |-> r.IsError]

\* the tool-use blocks of a response after the id repair (the k-th id is k),
\* each with the outcome its executor would have
ToolUseLists ==
  UNION {{[k \in 1..n |-> [id |-> k, name |-> f[k][1], exec |-> f[k][2]]] :
            f \in [1..n -> ToolNames \X ExecuteOutcomes]} : n \in 0..MaxToolUses}

\* Run enters the tool-call branch with the tool uses of the response
ToolsStart ==
  /\ tcRegistry \in SUBSET ToolNames
  /\ tcUses \in ToolUseLists
  /\ tcResults = <<>>
  /\ tcToolCalls = <<>>
  /\ tcAppended = <<>>
  /\ tcPc = "execute"

\* the tool-call branch when it is not under study
ToolsIdle ==
  /\ tcRegistry = {}
  /\ tcUses = <<>>
  /\ tcResults = <<>>
  /\ tcToolCalls = <<>>
  /\ tcAppended = <<>>
  /\ tcPc = "idle"

\* one pass of `for _, use := range uses` in executeTools
ExecuteToolStep ==
  /\ tcPc = "execute"
  /\ Len(tcResults) < Len(tcUses)
  /\ tcResults' = Append(tcResults, ExecuteOne(tcRegistry, tcUses[Len(tcResults) + 1]))
  /\ UNCHANGED <<tcRegistry, tcUses, tcToolCalls, tcAppended, tcPc>>
  /\ UNCHANGED notToolsVars

\* executeTools returns and Run goes on: on an error Run returns "tool
\* execution failed", otherwise every result is recorded with AddToolCall, the
\* tool-result message is built and added, and the loop starts its next pass
ExecuteToolsReturns ==
  /\ tcPc = "execute"
  /\ Len(tcResults) = Len(tcUses)
  /\ IF executeToolsErr(tcResults)
       THEN /\ tcPc' = "error"
            /\ UNCHANGED <<tcToolCalls, tcAppended>>
       ELSE /\ tcToolCalls' = [k \in 1..Len(tcResults) |->
                                 [Name |-> tcResults[k].Name,
                                  IsError |-> tcResults[k].IsError]]
            /\ tcAppended' = <<[role |-> "user",
                                content |-> [k \in 1..Len(tcResults) |->
                                               ResultBlock(tcResults[k])]]>>
            /\ tcPc' = "top"
  /\ UNCHANGED <<tcRegistry, tcUses, tcResults>>
  /\ UNCHANGED notToolsVars

ToolsNext ==
  \/ ExecuteToolStep
  \/ ExecuteToolsReturns

-----------------------------------------------------------------------------
(* pkg/tools: Registry.Register and Registry.Get called from several goroutines *)

\* the goroutines that call the registry; caller p registers its own tool p
Callers == 1..MaxCallers

\* the nil Tool
NilTool == 0

\* names of the tools the callers register and look up
RegNames == {"a", "b"}

\* sync.RWMutex: Lock is granted when no goroutine holds the lock in either mode
CanLock_NoMutex == TRUE
CanLock == crWriter = 0 /\ crReaders = {}

\* sync.RWMutex: RLock is granted when no goroutine holds the write lock
CanRLock == crWriter = 0

\* NewRegistry, and the call each goroutine is about to make
ConcStart ==
  /\ crTools = [n \in RegNames |-> NilTool]
  /\ crWriter = 0
  /\ crReaders = {}
  /\ \E ops \in [Callers -> {"Register", "Get"}], names \in [Callers -> RegNames] :
       crCall = [p \in Callers |->
                   [op |-> ops[p], name |-> names[p], pc |-> "call", exists |-> FALSE,
                    err |-> FALSE, tool |-> NilTool]]

\* the registry when it is not under study
ConcIdle ==
  /\ crTools = [n \in RegNames |-> NilTool]
  /\ crWriter = 0
  /\ crReaders = {}
  /\ crCall = [p \in 1..1 |->
                 [op |-> "Get", name |-> "a", pc |-> "returned", exists |-> FALSE,
                  err |-> FALSE, tool |-> NilTool]]

\* Register: r.mu.Lock()
RegisterLock(p) ==
  /\ crCall[p].op = "Register" /\ crCall[p].pc = "call"
  /\ CanLock
  /\ crWriter' = p
  /\ crCall' = [crCall EXCEPT ![p].pc = "locked"]
  /\ UNCHANGED <<crTools, crReaders>>
  /\ UNCHANGED notConcVars

\* Register: `_, exists := r.tools[name]`
RegisterCheck(p) ==
  /\ crCall[p].op = "Register" /\ crCall[p].pc = "locked"
  /\ crCall' = [crCall EXCEPT ![p].pc = "checked",
                              ![p].exists = crTools[crCall[p].name] # NilTool]
  /\ UNCHANGED <<crTools, crWriter, crReaders>>
  /\ UNCHANGED notConcVars

\* Register: the duplicate error, or `r.tools[name] = tool` and nil
RegisterStore(p) ==
  /\ crCall[p].op = "Register" /\ crCall[p].pc = "checked"
  /\ IF crCall[p].exists
       THEN /\ crCall' = [crCall EXCEPT ![p].pc = "unlock", ![p].err = TRUE]
            /\ UNCHANGED crTools
       ELSE /\ crTools' = [crTools EXCEPT ![crCall[p].name] = p]
            /\ crCall' = [crCall EXCEPT ![p].pc = "unlock"]
  /\ UNCHANGED <<crWriter, crReaders>>
  /\ UNCHANGED notConcVars

\* Register: the deferred r.mu.Unlock() and the return
RegisterUnlock(p) ==
  /\ crCall[p].op = "Register" /\ crCall[p].pc = "unlock"
  /\ crWriter' = IF crWriter = p THEN 0 ELSE crWriter
  /\ crCall' = [crCall EXCEPT ![p].pc = "returned"]
  /\ UNCHANGED <<crTools, crReaders>>
  /\ UNCHANGED notConcVars

\* Get: r.mu.RLock()
GetRLock(p) ==
  /\ crCall[p].op = "Get" /\ crCall[p].pc = "call"
  /\ CanRLock
  /\ crReaders' = crReaders \cup {p}
  /\ crCall' = [crCall EXCEPT ![p].pc = "rlocked"]
  /\ UNCHANGED <<crTools, crWriter>>
  /\ UNCHANGED notConcVars

\* Get: `return r.tools[name]` with the deferred r.mu.RUnlock()
GetReturn(p) ==
  /\ crCall[p].op = "Get" /\ crCall[p].pc = "rlocked"
  /\ crReaders' = crReaders \ {p}
  /\ crCall' = [crCall EXCEPT ![p].pc = "returned", ![p].tool = crTools[crCall[p].name]]
  /\ UNCHANGED <<crTools, crWriter>>
  /\ UNCHANGED notConcVars

ConcNext ==
  \E p \in Callers :
    \/ RegisterLock(p)
    \/ RegisterCheck(p)
    \/ RegisterStore(p)
    \/ RegisterUnlock(p)
    \/ GetRLock(p)
    \/ GetReturn(p)

-----------------------------------------------------------------------------
(* The hosting platform delivers the engine's own issue comments back as
   issue_comment webhooks: main's handler calls HandleIssueComment with them *)

\* the issue-comment feed when it is not under study
FeedIdle ==
  /\ fdDelivered = 0
  /\ fdKind = ""

\* A handler has returned after posting comments on the issue; the platform
\* delivers the issue_comment event of one of them (action "created", the
\* issue as it is then), the queue hands it to a worker and main's handler
\* calls HandleIssueComment, with requireLabeler = false, for a new run.
Redeliver ==
  /\ wfKind = "issue"
  /\ enginePc = "returned"
  /\ fdDelivered < MaxSelfDeliveries
  /\ \E i \in 1..Len(comments), open \in BOOLEAN :
       /\ fdKind' = comments[i]
       /\ itemOpen' = open
       /\ event' = [type |-> EventIssueComment, action |-> "created", present |-> TRUE,
                    state |-> IF open THEN "open" ELSE "closed", label |-> "", body |-> {}]
  /\ fdDelivered' = fdDelivered + 1
  /\ handler' = "HandleIssueComment"
  /\ assignSender' = FALSE
  /\ enginePc' = "handler"
  /\ engineReturn' = "none"
  /\ issueLabels' = {}
  /\ workspaceCreated' = FALSE
  /\ llmCalled' = FALSE
  /\ outcome' = [decision |-> "none", files |-> FALSE, patch |-> FALSE, agentWrote |-> FALSE]
  /\ worktreeDirty' = FALSE
  /\ labelWrites' = <<>>
  /\ comments' = <<>>
  /\ commits' = 0
  /\ pushes' = 0
  /\ pushedCommits' = 0
  /\ prOpened' = FALSE
  /\ prBodyUpdated' = FALSE
  /\ assigneesAdded' = FALSE
  /\ UNCHANGED <<wfKind, cfgTriggerLabels, platformLabels>>
  /\ UNCHANGED <<queueVars, loopVars, pathVars, providerVars, registryVars, webhookVars,
                 truncateVars, toolsVars, concVars, stdioVars, compactVars,
                 runnerVars, workspaceVars, bashVars>>

\* the engine and the deliveries its own comments cause
FeedNext ==
  \/ EngineNext
  \/ Redeliver

-----------------------------------------------------------------------------
(* pkg/mcp/server.go: StdioTransport.Send and the reader readResponses *)

\* the goroutines that call Send, one request each
Senders == 1..MaxSends

\* Go values of the type any that serve as request ids: the dynamic type is
\* part of the value, and of the identity of a key of t.pending; val is the
\* number of a numeric id, text the characters of a string id
NilID == [type |-> "nil", val |-> 0, text |-> ""]
IntID(n) == [type |-> "int", val |-> n, text |-> ""]
Float64ID(n) == [type |-> "float64", val |-> n, text |-> ""]
StringID(s) == [type |-> "string", val |-> 0, text |-> s]

\* the ids a caller passes in Request.ID: Client.Initialize passes the int 1,
\* ListTools and CallTool pass nil, and the field takes any string
RequestIDs == {NilID, IntID(1), StringID("a"), StringID("b")}

\* json.Marshal of the id, as it stands in the request line and in the
\* response line the server writes for it
Marshal(id) ==
  IF id.type = "string" THEN [json |-> "string", val |-> 0, text |-> id.text]
  ELSE [json |-> "number", val |-> id.val, text |-> ""]

\* json.Unmarshal of an id into the `any` field Response.ID: a JSON number
\* becomes a float64, a JSON string a string (Unmarshal_KeepInt: a decoder
\* that gave a JSON number the type the id had when Send stored it)
Unmarshal_KeepInt(j) ==
  IF j.json = "string" THEN StringID(j.text) ELSE IntID(j.val)
Unmarshal(j) ==
  IF j.json = "string" THEN StringID(j.text) ELSE Float64ID(j.val)

\* the entry of t.pending under the key id: the sender whose channel it holds
\* (0: no entry)
PendingOf(id) ==
  IF \E e \in stPending : e.key = id
    THEN (CHOOSE e \in stPending : e.key = id).owner
    ELSE 0

\* `t.pending[id] = respCh`
StorePending(id, p) == {e \in stPending : e.key # id} \cup {[key |-> id, owner |-> p]}

\* removePending
removePending(id) == {e \in stPending : e.key # id}

NoRPCResponse == [id |-> [json |-> "none", val |-> 0, text |-> ""], to |-> 0]

\* NewStdioTransport, and the request each goroutine is about to send
StdioStart ==
  /\ stNextID = 1
  /\ stPending = {}
  /\ stIn = <<>>
  /\ stOut = <<>>
  /\ stChan = [p \in Senders |-> NoRPCResponse]
  /\ \E ids \in [Senders -> RequestIDs] :
       stSend = [p \in Senders |->
                   [pc |-> "call", id |-> ids[p], ctxDone |-> FALSE, err |-> FALSE,
                    resp |-> NoRPCResponse]]
  /\ stClosed = FALSE
  /\ stReader = "running"
  /\ stChild = "running"
  /\ stSentIDs = <<>>

\* the transport when it is not under study
StdioIdle ==
  /\ stNextID = 1
  /\ stPending = {}
  /\ stIn = <<>>
  /\ stOut = <<>>
  /\ stChan = [p \in 1..1 |-> NoRPCResponse]
  /\ stSend = [p \in 1..1 |->
                 [pc |-> "returned", id |-> NilID, ctxDone |-> FALSE, err |-> FALSE,
                  resp |-> NoRPCResponse]]
  /\ stClosed = TRUE
  /\ stReader = "exited"
  /\ stChild = "exited"
  /\ stSentIDs = <<>>

\* Send under t.mu: on a closed transport it returns "transport closed";
\* otherwise the id is assigned when it is nil, the channel is stored in
\* t.pending, and the request line is written to the server's stdin; when the
\* write fails the entry is removed and Send returns the error
SendWrite(p) ==
  /\ stSend[p].pc = "call"
  /\ IF stClosed THEN
       /\ stSend' = [stSend EXCEPT ![p].pc = "returned", ![p].err = TRUE]
       /\ UNCHANGED <<stNextID, stPending, stIn, stSentIDs>>
     ELSE
       \E id \in {IF stSend[p].id = NilID THEN IntID(stNextID) ELSE stSend[p].id},
          written \in BOOLEAN :
         /\ stNextID' = IF stSend[p].id = NilID THEN stNextID + 1 ELSE stNextID
         /\ IF written
              THEN /\ stPending' = StorePending(id, p)
                   /\ stIn' = Append(stIn, [id |-> Marshal(id), to |-> p])
                   /\ stSentIDs' = Append(stSentIDs, Marshal(id))
                   /\ stSend' = [stSend EXCEPT ![p].pc = "wait", ![p].id = id]
              ELSE /\ stPending' = removePending(id)
                   /\ stIn' = stIn
                   /\ stSentIDs' = stSentIDs
                   /\ stSend' = [stSend EXCEPT ![p].pc = "returned", ![p].id = id,
                                               ![p].err = TRUE]
  /\ UNCHANGED <<stOut, stChan, stClosed, stReader, stChild>>
  /\ UNCHANGED notStdioVars

\* Notify under t.mu: on an open transport the notification line, which has
\* no id, is written to the server's stdin (one unread notification at a time
\* is followed)
Notify ==
  /\ ~stClosed
  /\ stSend # <<>>
  /\ \A k \in 1..Len(stIn) : stIn[k] # NoRPCResponse
  /\ stIn' = Append(stIn, NoRPCResponse)
  /\ UNCHANGED <<stNextID, stPending, stOut, stChan, stSend, stClosed, stReader, stChild>>
  /\ UNCHANGED <<stSentIDs, notStdioVars>>

\* the server process reads a line: it answers a request with one response
\* line that carries the id of the request, and a notification with nothing
ServerResponds ==
  /\ stChild = "running"
  /\ stIn # <<>>
  /\ stIn' = Tail(stIn)
  /\ stOut' = IF Head(stIn) = NoRPCResponse THEN stOut ELSE Append(stOut, Head(stIn))
  /\ UNCHANGED <<stNextID, stPending, stChan, stSend, stClosed, stReader, stChild>>
  /\ UNCHANGED <<stSentIDs, notStdioVars>>

\* one pass of readResponses: a line is read and parsed, the entry of
\* t.pending under resp.ID, when there is one, is deleted and the response is
\* put in its channel; otherwise the response is dropped
ReadResponse ==
  /\ stReader = "running"
  /\ stOut # <<>>
  /\ stOut' = Tail(stOut)
  /\ \E key \in {Unmarshal(Head(stOut).id)} :
       \E owner \in {PendingOf(key)} :
         IF owner # 0
           THEN /\ stPending' = removePending(key)
                /\ stChan' = [stChan EXCEPT ![owner] = Head(stOut)]
           ELSE UNCHANGED <<stPending, stChan>>
  /\ UNCHANGED <<stNextID, stIn, stSend, stClosed, stReader, stChild>>
  /\ UNCHANGED <<stSentIDs, notStdioVars>>

\* the server process exits, or closes its stdout, by itself
ChildExits ==
  /\ stChild = "running"
  /\ stSend # <<>>
  /\ stChild' = "exited"
  /\ UNCHANGED <<stNextID, stPending, stIn, stOut, stChan, stSend, stClosed, stReader>>
  /\ UNCHANGED <<stSentIDs, notStdioVars>>

\* Close: t.closed is set, the pipes are closed and the process is killed
Close ==
  /\ ~stClosed
  /\ stClosed' = TRUE
  /\ stChild' = "exited"
  /\ UNCHANGED <<stNextID, stPending, stIn, stOut, stChan, stSend, stReader>>
  /\ UNCHANGED <<stSentIDs, notStdioVars>>

\* readResponses: ReadBytes returns an error (the end of the output of a
\* process that exited, once the lines before it are read, or the closed
\* pipe) and the goroutine returns; t.pending and the channels are left as
\* they are
ReaderExits ==
  /\ stReader = "running"
  /\ stClosed \/ (stChild = "exited" /\ stOut = <<>>)
  /\ stReader' = "exited"
  /\ UNCHANGED <<stNextID, stPending, stIn, stOut, stChan, stSend, stClosed, stChild>>
  /\ UNCHANGED <<stSentIDs, notStdioVars>>

\* Send: `case resp := <-respCh`
SendReceives(p) ==
  /\ stSend[p].pc = "wait"
  /\ stChan[p] # NoRPCResponse
  /\ stSend' = [stSend EXCEPT ![p].pc = "returned", ![p].resp = stChan[p]]
  /\ stChan' = [stChan EXCEPT ![p] = NoRPCResponse]
  /\ UNCHANGED <<stNextID, stPending, stIn, stOut, stClosed, stReader, stChild>>
  /\ UNCHANGED <<stSentIDs, notStdioVars>>

\* the ctx of a Send is cancelled or reaches its deadline
SendCtxDone(p) ==
  /\ stSend[p].pc \in {"call", "wait"}
  /\ ~stSend[p].ctxDone
  /\ stSend' = [stSend EXCEPT ![p].ctxDone = TRUE]
  /\ UNCHANGED <<stNextID, stPending, stIn, stOut, stChan, stClosed, stReader, stChild>>
  /\ UNCHANGED <<stSentIDs, notStdioVars>>

\* Send: `case <-ctx.Done()`: the entry is removed and ctx.Err() returned
SendCancelled(p) ==
  /\ stSend[p].pc = "wait"
  /\ stSend[p].ctxDone
  /\ stPending' = removePending(stSend[p].id)
  /\ stSend' = [stSend EXCEPT ![p].pc = "returned", ![p].err = TRUE]
  /\ UNCHANGED <<stNextID, stIn, stOut, stChan, stClosed, stReader, stChild>>
  /\ UNCHANGED <<stSentIDs, notStdioVars>>

StdioNext ==
  \/ \E p \in Senders : SendWrite(p)
  \/ Notify
  \/ ServerResponds
  \/ ReadResponse
  \/ ChildExits
  \/ Close
  \/ ReaderExits
  \/ \E p \in Senders : SendReceives(p)
  \/ \E p \in Senders : SendCtxDone(p)
  \/ \E p \in Senders : SendCancelled(p)

\* Compact is not under study
CompactIdle ==
  /\ cpMessages = <<>>
  /\ cpConfig = [Enabled |-> FALSE, Threshold |-> 1, KeepRecent |-> 0]
  /\ cpSummaryOK = FALSE
  /\ cpResult = [returned |-> FALSE, messages |-> <<>>, err |-> FALSE]

-----------------------------------------------------------------------------
(* pkg/llm/llm.go, pkg/llm/api.go, unnamed/part_004: the Runners and the
   parsing of the final output *)

\* the Runner implementations that parse the output with extractResponseJSON
Runners == {"CommandRunner", "APIRunner", "OrchestratorRunner"}

\* llm.DecisionProceed
DecisionProceed == "proceed"

\* what follows a `{` of the output: text that does not decode, or an object
\* with or without a decision field
Candidates ==
  {[json |-> FALSE, decision |-> ""]} \cup
  [json : {TRUE}, decision : {"", "proceed", "needs_info", "stop"}]

\* parseResponseJSON: TRUE when it returns a Response and no error
parseResponseJSON(c) == c.json /\ c.decision # ""

RECURSIVE extractResponseJSON(_)
\* extractResponseJSON: the Response of the first candidate that parses, or an
\* error (empty output, no JSON object, or the error of the last candidate)
extractResponseJSON(output) ==
  IF output = <<>> THEN [err |-> TRUE, decision |-> ""]
  ELSE IF parseResponseJSON(Head(output))
    THEN [err |-> FALSE, decision |-> Head(output).decision]
  ELSE extractResponseJSON(Tail(output))

\* what OrchestratorRunner.Run makes of the result of llm.ParseResponse
OrchestratorResponse_SurfaceError(parsed) == parsed
OrchestratorResponse(parsed) ==
  IF parsed.err THEN [err |-> FALSE, decision |-> DecisionProceed] ELSE parsed

RunnerStart ==
  /\ rnRunner \in Runners
  /\ rnRunOK \in BOOLEAN
  /\ rnOutput \in SeqsUpTo(Candidates, MaxObjects)
  /\ rnResult = [returned |-> FALSE, err |-> FALSE, decision |-> ""]

\* no Runner is under study
RunnerIdle ==
  /\ rnRunner = ""
  /\ rnRunOK = FALSE
  /\ rnOutput = <<>>
  /\ rnResult = [returned |-> FALSE, err |-> FALSE, decision |-> ""]

\* Run returns: the error of the command, of the HTTP call or of the
\* orchestrator, or what the Runner makes of the parsed output
RunnerReturns ==
  /\ rnRunner # ""
  /\ ~rnResult.returned
  /\ \E parsed \in {extractResponseJSON(rnOutput)} :
       \E r \in {IF ~rnRunOK THEN [err |-> TRUE, decision |-> ""]
                 ELSE IF rnRunner = "OrchestratorRunner" THEN OrchestratorResponse(parsed)
                 ELSE parsed} :
         rnResult' = [returned |-> TRUE, err |-> r.err, decision |-> r.decision]
  /\ UNCHANGED <<rnRunner, rnRunOK, rnOutput>>
  /\ UNCHANGED notRunnerVars

RunnerNext == RunnerReturns

-----------------------------------------------------------------------------
(* internal/service/workflow/engine.go: prepareWorkspace and the branch name
   of handleIssue, for jobs that run on different workers *)

\* the jobs that are handled at the same time, one per worker
Jobs == 1..MaxJobs

\* the repositories of the events
Repos == {"o/a", "o/b"}

\* time.Format("20060102-150405"): the time to the second
Format(now) == now \div TicksPerSecond

\* fmt.Sprintf("issue-%d", issue.Number) and fmt.Sprintf("pr-%d", pr.Number)
Prefix(job) == <<job.kind, job.number>>

\* filepath.Join(base, fmt.Sprintf("%s-%s", prefix, e.now().Format(...)))
WorkDirName(job, now) == Prefix(job) \o <<Format(now)>>

\* fmt.Sprintf("llm/issue-%d-%s", issue.Number, e.now().Format(...))
BranchName(job, now) == <<"llm/issue", job.number, Format(now)>>

WorkspaceStart ==
  /\ wsNow = 0
  /\ wsJob \in [Jobs -> [kind : {"issue", "pr"}, number : 1..MaxIssueNumber,
                         repo : Repos, pc : {"start"}, workDir : {<<>>},
                         branch : {<<>>}]]

\* no job is under study
WorkspaceIdle ==
  /\ wsNow = 0
  /\ wsJob = <<>>

\* the wall clock advances
Tick ==
  /\ wsJob # <<>>
  /\ wsNow < MaxNow
  /\ wsNow' = wsNow + 1
  /\ UNCHANGED wsJob
  /\ UNCHANGED notWorkspaceVars

\* prepareWorkspace up to the clone: the name is computed and MkdirAll makes
\* workDir, workDir/outputs and workDir/repo (it succeeds on a directory that
\* exists), or fails
MkdirAll(j) ==
  /\ j \in DOMAIN wsJob
  /\ wsJob[j].pc = "start"
  /\ \E ok \in BOOLEAN :
       wsJob' = [wsJob EXCEPT ![j].workDir = WorkDirName(wsJob[j], wsNow),
                              ![j].pc = IF ok THEN "mkdir" ELSE "failed"]
  /\ UNCHANGED wsNow
  /\ UNCHANGED notWorkspaceVars

\* the rest of prepareWorkspace: the clone URL is validated and e.git.Clone
\* fills workDir/repo
Clone(j) ==
  /\ j \in DOMAIN wsJob
  /\ wsJob[j].pc = "mkdir"
  /\ \E ok \in BOOLEAN :
       wsJob' = [wsJob EXCEPT ![j].pc = IF ok THEN "prepared" ELSE "failed"]
  /\ UNCHANGED wsNow
  /\ UNCHANGED notWorkspaceVars

\* step 7 of handleIssue: the new branch is named and checked out in the clone
CheckoutBranch(j) ==
  /\ j \in DOMAIN wsJob
  /\ wsJob[j].pc = "prepared"
  /\ wsJob[j].kind = "issue"
  /\ \E ok \in BOOLEAN :
       wsJob' = [wsJob EXCEPT ![j].branch = BranchName(wsJob[j], wsNow),
                              ![j].pc = IF ok THEN "branched" ELSE "failed"]
  /\ UNCHANGED wsNow
  /\ UNCHANGED notWorkspaceVars

WorkspaceNext ==
  \/ Tick
  \/ \E j \in Jobs : MkdirAll(j) \/ Clone(j) \/ CheckoutBranch(j)

-----------------------------------------------------------------------------
(* pkg/tools/builtin/bash.go: the timeout of BashTool.Execute *)

\* the upper limit of the timeout and the value that replaces one below 1
MaxBashTimeout == 300
FallbackBashTimeout == 60

\* int(t) of a float64 t = halves/2 within the range of int: the fraction is
\* dropped
IntOf(halves) == IF halves >= 0 THEN halves \div 2 ELSE -((-halves) \div 2)

\* int(t) of a float64 beyond the range of int depends on the platform: the
\* least int on some, the greatest on others; -1 and MaxBashTimeout + 1 stand
\* for them
IntOfHuge == {-1, MaxBashTimeout + 1}

\* the timeout values an input may carry: none, the float64 values halves/2,
\* and one beyond the range of int
TimeoutInputs ==
  {[kind |-> "absent", halves |-> 0], [kind |-> "huge", halves |-> 0]} \cup
  [kind : {"float"}, halves : (-2)..(2 * MaxBashSeconds)]

\* lines 59-68 of Execute, converted being int(t) of the input's timeout
EffectiveTimeout_ClampToOne(bashTimeout, input, converted) ==
  LET requested == IF input.kind # "absent" /\ (input.kind = "huge" \/ input.halves > 0)
                     THEN converted ELSE bashTimeout
      capped == IF requested > MaxBashTimeout THEN MaxBashTimeout ELSE requested
  IN IF capped < 1 THEN 1 ELSE capped
EffectiveTimeout(bashTimeout, input, converted) ==
  LET requested == IF input.kind # "absent" /\ (input.kind = "huge" \/ input.halves > 0)
                     THEN converted ELSE bashTimeout
      capped == IF requested > MaxBashTimeout THEN MaxBashTimeout ELSE requested
  IN IF capped < 1 THEN FallbackBashTimeout ELSE capped

BashStart ==
  /\ btBashTimeout \in (-1)..MaxBashSeconds
  /\ btInput \in TimeoutInputs
  /\ btResult = [done |-> FALSE, timeout |-> 0]

\* no bash tool is under study
BashIdle ==
  /\ btBashTimeout = 0
  /\ btInput = [kind |-> "absent", halves |-> 0]
  /\ btResult = [done |-> FALSE, timeout |-> 0]

\* Execute up to context.WithTimeout
BashExecute ==
  /\ ~btResult.done
  /\ \E converted \in (IF btInput.kind = "huge" THEN IntOfHuge ELSE {IntOf(btInput.halves)}) :
       btResult' = [done |-> TRUE,
                    timeout |-> EffectiveTimeout(btBashTimeout, btInput, converted)]
  /\ UNCHANGED <<btBashTimeout, btInput>>
  /\ UNCHANGED notBashVars

BashNext == BashExecute

\* truncateMessages is not under study
TruncateIdle ==
  /\ tmMessages = <<>>
  /\ tmMaxMessages = 0
  /\ tmResult = [returned |-> FALSE, messages |-> <<>>]

\* the receiver and the queue when they are not under study: nothing arrives
QueueIdle ==
  /\ cfgMaxWorkers = 1
  /\ mainPc = "exited"
  /\ listening = FALSE
  /\ ctxDone = TRUE
  /\ jobs = <<>>
  /\ worker = [w \in 1..1 |-> [pc |-> "returned", job |-> 0]]
  /\ handled = [r \in Requests |-> 0]
  /\ arrived = 0
  /\ response = [r \in Requests |-> 0]
  /\ enqueued = [r \in Requests |-> 0]

QueueNext ==
  \/ Arrive
  \/ \E r \in Requests : handleWebhook(r)
  \/ \E w \in Workers : WorkerTake(w)
  \/ \E w \in Workers : WorkerHandlerReturns(w)
  \/ \E w \in Workers : WorkerReturn(w)
  \/ Signal
  \/ ShutdownReturns
  \/ Cancel
  \/ QueueStop

QueueInit == QueueStart /\ LoopIdle /\ EngineIdle /\ PathIdle /\ ProviderIdle /\ RegistryIdle
  /\ WebhookIdle
  /\ TruncateIdle
  /\ ToolsIdle
  /\ ConcIdle
  /\ FeedIdle
  /\ StdioIdle
  /\ CompactIdle
  /\ RunnerIdle
  /\ WorkspaceIdle
  /\ BashIdle

SpecQueue == QueueInit /\ [][QueueNext]_vars

LoopInit == LoopStart /\ QueueIdle /\ EngineIdle /\ PathIdle /\ ProviderIdle /\ RegistryIdle
  /\ WebhookIdle
  /\ TruncateIdle
  /\ ToolsIdle
  /\ ConcIdle
  /\ FeedIdle
  /\ StdioIdle
  /\ CompactIdle
  /\ RunnerIdle
  /\ WorkspaceIdle
  /\ BashIdle

SpecLoop == LoopInit /\ [][LoopNext]_vars

\* every step of Run returns: the provider call and the tools are bounded by
\* their timeouts, so a loop that can step does step
SpecLoopFair == SpecLoop /\ WF_vars(LoopNext)

EngineInit == EngineStart /\ QueueIdle /\ LoopIdle /\ PathIdle /\ ProviderIdle /\ RegistryIdle
  /\ WebhookIdle
  /\ TruncateIdle
  /\ ToolsIdle
  /\ ConcIdle
  /\ FeedIdle
  /\ StdioIdle
  /\ CompactIdle
  /\ RunnerIdle
  /\ WorkspaceIdle
  /\ BashIdle

SpecEngine == EngineInit /\ [][EngineNext]_vars

PathInit == PathStart /\ QueueIdle /\ LoopIdle /\ EngineIdle /\ ProviderIdle /\ RegistryIdle
  /\ WebhookIdle
  /\ TruncateIdle
  /\ ToolsIdle
  /\ ConcIdle
  /\ FeedIdle
  /\ StdioIdle
  /\ CompactIdle
  /\ RunnerIdle
  /\ WorkspaceIdle
  /\ BashIdle

SpecPath == PathInit /\ [][PathNext]_vars

ProviderInit == ProviderStart /\ QueueIdle /\ LoopIdle /\ EngineIdle /\ PathIdle /\ RegistryIdle
  /\ WebhookIdle
  /\ TruncateIdle
  /\ ToolsIdle
  /\ ConcIdle
  /\ FeedIdle
  /\ StdioIdle
  /\ CompactIdle
  /\ RunnerIdle
  /\ WorkspaceIdle
  /\ BashIdle

SpecProvider == ProviderInit /\ [][ProviderNext]_vars

RegistryInit ==
  RegistryStart /\ QueueIdle /\ LoopIdle /\ EngineIdle /\ PathIdle /\ ProviderIdle
  /\ WebhookIdle
  /\ TruncateIdle
  /\ ToolsIdle
  /\ ConcIdle
  /\ FeedIdle
  /\ StdioIdle
  /\ CompactIdle
  /\ RunnerIdle
  /\ WorkspaceIdle
  /\ BashIdle

SpecRegistry == RegistryInit /\ [][RegistryNext]_vars

WebhookInit ==
  WebhookStart /\ QueueIdle /\ LoopIdle /\ EngineIdle /\ PathIdle /\ ProviderIdle
  /\ RegistryIdle
  /\ TruncateIdle
  /\ ToolsIdle
  /\ ConcIdle
  /\ FeedIdle
  /\ StdioIdle
  /\ CompactIdle
  /\ RunnerIdle
  /\ WorkspaceIdle
  /\ BashIdle

SpecWebhook == WebhookInit /\ [][WebhookNext]_vars

-----------------------------------------------------------------------------
(* Properties of the receiver, the queue and the shutdown sequence *)

\* W: the configured worker count, counted as 1 when configured below 1
EffectiveWorkers == IF cfgMaxWorkers < 1 THEN 1 ELSE cfgMaxWorkers

Is2xx(code) == code >= 200 /\ code < 300

\* the Jobs that some worker is running through the handler
Running == {r \in Requests : \E w \in Workers : worker[w].pc = "handler" /\ worker[w].job = r}

\* C2: for every webhook request, the receiver either placed exactly one Job
\* for its Event in the queue and answered 2xx, or placed none and answered
\* non-2xx; no Event is enqueued twice, and an Event answered with 2xx is in
\* the queue or has been taken by a worker (the receiver did not drop it).
C2_EnqueueOnceOrReject ==
  \A r \in Requests :
    /\ enqueued[r] <= 1
    /\ response[r] = 0 => enqueued[r] = 0
    /\ Is2xx(response[r]) => enqueued[r] = 1 /\ InQueue(r) + handled[r] >= 1
    /\ (response[r] # 0 /\ ~Is2xx(response[r])) => enqueued[r] = 0 /\ InQueue(r) = 0

\* C2 witness: one request was accepted with 202 and its Job queued, another
\* was refused with 503 and nothing queued for it.
C2_Witness ==
  \E r1, r2 \in Requests :
    /\ response[r1] = 202 /\ enqueued[r1] = 1
    /\ response[r2] = 503 /\ enqueued[r2] = 0

\* C3 (as claimed): every Job accepted into the queue is handed to the handler
\* exactly once, so when the process has exited none is left unhandled.
C3_HandledExactlyOnce ==
  mainPc = "exited" => \A r \in Requests : enqueued[r] >= 1 => handled[r] = 1

\* C3 (amended): every accepted Job is, at every moment, either still in the
\* queue or has been handed to the handler exactly once; it is never handed
\* to the handler twice, no two workers run the same Job, and nothing that
\* was not accepted is handled.  (A Job still queued at shutdown stays
\* unhandled.)
C3_HandledAtMostOnce ==
  /\ \A r \in Requests :
       /\ handled[r] <= 1
       /\ enqueued[r] = 0 => handled[r] = 0 /\ InQueue(r) = 0
       /\ enqueued[r] >= 1 => InQueue(r) + handled[r] = 1
  /\ \A w1, w2 \in Workers :
       (w1 # w2 /\ worker[w1].pc = "handler" /\ worker[w2].pc = "handler")
         => worker[w1].job # worker[w2].job

\* C3 witness: the process has exited; one accepted Job was handled once and
\* another accepted Job is still in the queue.
C3_Witness ==
  /\ mainPc = "exited"
  /\ \E r1, r2 \in Requests :
       /\ enqueued[r1] = 1 /\ handled[r1] = 1
       /\ enqueued[r2] = 1 /\ handled[r2] = 0 /\ InQueue(r2) = 1

\* C4: on shutdown the listener is closed before the worker context is
\* cancelled, the context is cancelled before main waits in q.Stop, and the
\* process has exited only when every worker goroutine has returned (none is
\* still inside the handler).
C4_ShutdownOrder ==
  /\ ctxDone => ~listening
  /\ mainPc \in {"stop", "exited"} <=> ctxDone
  /\ mainPc \in {"shutdown", "cancel", "stop", "exited"} <=> ~listening
  /\ mainPc = "exited" => \A w \in Workers : worker[w].pc = "returned"

\* C4 witness: the process has exited after its workers handled Jobs.
C4_Witness ==
  /\ mainPc = "exited"
  /\ \E r \in Requests : handled[r] = 1
  /\ \A w \in Workers : worker[w].pc = "returned"

\* C5: the queue never holds more than W x 4 Jobs; a request that reaches
\* Enqueue is answered at once: with 503 and no Job added when the queue
\* already holds W x 4 Jobs, with 202 and its Job appended otherwise; and the
\* handler of a request that is waiting for its answer can always run.
C5_BoundedNonBlocking ==
  /\ [](Len(jobs) <= EffectiveWorkers * 4)
  /\ [](\A r \in Inflight : mainPc # "exited" => ENABLED handleWebhook(r))
  /\ [][\A r \in Requests :
          (response[r] = 0 /\ response'[r] \in {202, 503}) =>
            IF Len(jobs) >= EffectiveWorkers * 4
              THEN response'[r] = 503 /\ jobs' = jobs /\ enqueued'[r] = 0
              ELSE response'[r] = 202 /\ jobs' = Append(jobs, r)]_vars

\* C5 witness: the queue holds W x 4 Jobs and a request was answered 503.
C5_Witness ==
  /\ Len(jobs) = EffectiveWorkers * 4
  /\ \E r \in Requests : response[r] = 503

\* C6: at every moment at most W Jobs are being run by the handler, one per
\* worker: a worker is inside the handler exactly when it holds one Job.
C6_AtMostWJobsRunning ==
  /\ Cardinality(Running) <= EffectiveWorkers
  /\ Cardinality({w \in Workers : worker[w].pc = "handler"}) <= EffectiveWorkers
  /\ \A w \in Workers : worker[w].pc = "handler" <=> worker[w].job # 0

\* C6 witness: W = 2 and two Jobs are being run at the same time.
C6_Witness ==
  /\ EffectiveWorkers = 2
  /\ Cardinality(Running) = 2

-----------------------------------------------------------------------------
(* Properties of the agent loop *)

\* every tool-result of ms has a non-empty id that a tool-use block of an
\* earlier message of ms carries
PairingInvariant(ms) ==
  \A p \in ToolResultsAt(ms, 1..Len(ms)) :
    LET id == ms[p[1]].content[p[2]].id IN
      id # EmptyID /\ id \in ToolUseIDsAt(ms, 1..(p[1] - 1))

\* C1: every message list handed to the provider, whether it is the stored
\* history, its compaction, its truncation or the list Run falls back to when
\* validation fails, has each tool-result refer to a tool-use of an earlier
\* message.
C1_SentPairsIntact == PairingInvariant(sent)

\* a request went out with a compacted and then truncated history that still
\* holds a tool-result
C1_Witness ==
  /\ loopPc = "call"
  /\ Len(sent) < Len(messages)
  /\ Len(messages) >= 2 /\ messages[2] = SummaryMessage
  /\ ToolResultsAt(sent, 1..Len(sent)) # {}

\* the maximum the specification states for the iterations of one run
IterationLimit == IF reqMaxIterations <= 0 THEN defaultMaxIterations ELSE reqMaxIterations

\* C7: a run makes at most max_iterations iterations (the default when the
\* request gives none), each with exactly one provider call; it always comes
\* to an end, and it ends with the max-iterations error exactly when all the
\* iterations were used without a terminal stop reason, a provider failure
\* or a cancellation.
C7_BoundedIterations ==
  /\ [](/\ iterations <= IterationLimit
        /\ calls = (IF loopPc = "call" THEN iterations - 1 ELSE iterations)
        /\ loopResult = "max_iterations" =>
             /\ loopPc = "done"
             /\ calls = IterationLimit
             /\ lastResponse.stop \notin {"end_turn", "max_tokens"}
        /\ (loopPc = "top" /\ iterations = IterationLimit) => ENABLED LoopMaxIterations)
  /\ <>(loopPc = "done" \/ iterations = IterCap)
  /\ [][(loopPc = "top" /\ iterations = IterationLimit /\ loopPc' # "top")
          => loopResult' = "max_iterations"]_vars

\* a run used all its iterations and ended with the max-iterations error
C7_Witness ==
  /\ loopResult = "max_iterations"
  /\ reqMaxIterations = MaxIterationsCfg
  /\ calls = MaxIterationsCfg

\* the positions of the tool-use blocks of the assistant messages of ms
AssistantToolUses(ms) ==
  {p \in (1..Len(ms)) \X (1..(MaxUses + 1)) :
     /\ ms[p[1]].role = "assistant"
     /\ p[2] <= Len(ms[p[1]].content)
     /\ ms[p[1]].content[p[2]].type = "tool_use"}

\* C8: after the id repair no tool-use block of an assistant message has the
\* empty id and no two of them, in one message or in two, have the same id;
\* this holds for every tool-use block the run has ever added.
C8_ToolUseIDsUnique ==
  /\ \A p, q \in AssistantToolUses(messages) :
       /\ messages[p[1]].content[p[2]].id # EmptyID
       /\ p # q => messages[p[1]].content[p[2]].id # messages[q[1]].content[q[2]].id
  /\ EmptyID \notin seenToolUseIDs
  /\ Cardinality(seenToolUseIDs) = toolUsesAdded

\* the provider repeated an id or left it empty more than once, and the
\* history holds the repaired blocks
C8_Witness ==
  /\ generated >= 2
  /\ Cardinality(AssistantToolUses(messages)) >= 3
  /\ Len(GetToolUses(lastResponse.content)) = 2

-----------------------------------------------------------------------------
(* Properties of the workflow engine *)

StatusLabels == {InProgressLabel, NeedsInfoLabel, DoneLabel}

\* the status label a label-writing step of handleIssue moves the issue to
TargetLabel(step) ==
  CASE step = "update-labels-in-progress" -> InProgressLabel
    [] step = "check-decision" -> NeedsInfoLabel
    [] step = "update-labels-done" -> DoneLabel

EmptyProceed ==
  outcome.decision = "proceed" /\ ~outcome.files /\ ~outcome.patch

\* C10 as stated: in the issue and in the PR workflow a proceed outcome with
\* an empty file map and no patch creates no commit, pushes nothing, opens or
\* updates no PR, and a run that returns without error has posted the
\* no-change comment.
C10_EmptyProceedNoChange ==
  EmptyProceed =>
    /\ commits = 0 /\ pushedCommits = 0
    /\ ~prOpened /\ ~prBodyUpdated
    /\ engineReturn = "nil" => comments = <<"no-change">>

\* C10 as the code has it: when the run left the checkout unchanged, (1) the
\* issue workflow creates no commit, runs no push, opens no PR, and posts the
\* no-change comment before it returns nil; (2) the PR workflow creates no
\* commit and opens no PR, but it has no change check: it still runs the push
\* (of no new commit), updates the PR body and posts the "Automation applied"
\* comment. (3) A commit exists only when the checkout had a change, so with
\* an empty file map and no patch only when the agent's tools wrote it.
C10_NoChangePaths ==
  /\ (EmptyProceed /\ ~outcome.agentWrote /\ wfKind = "issue") =>
       /\ commits = 0 /\ pushes = 0 /\ ~prOpened /\ ~prBodyUpdated
       /\ engineReturn = "nil" => comments = <<"no-change">>
       /\ engineReturn = "error" => comments = <<>>
  /\ (EmptyProceed /\ ~outcome.agentWrote /\ wfKind = "pr") =>
       /\ commits = 0 /\ pushedCommits = 0 /\ ~prOpened
       /\ engineReturn = "nil" =>
            pushes = 1 /\ prBodyUpdated /\ comments = <<"applied">>
  /\ (EmptyProceed /\ commits > 0) => outcome.agentWrote

\* the issue workflow ended on its no-change path
C10_Witness ==
  /\ wfKind = "issue"
  /\ EmptyProceed /\ ~outcome.agentWrote
  /\ engineReturn = "nil"
  /\ comments = <<"no-change">>

\* C11 as stated: when a run of the issue workflow that wrote a label has
\* returned, with nil or with an error, the issue does not carry the
\* in-progress label; it carries the done label if a PR was opened and the
\* needs-info label if the decision was needs_info.
C11_LabelsReflectTerminalState ==
  (wfKind = "issue" /\ enginePc = "returned" /\ Len(labelWrites) >= 1) =>
    /\ InProgressLabel \notin platformLabels
    /\ prOpened => DoneLabel \in platformLabels
    /\ outcome.decision = "needs_info" => NeedsInfoLabel \in platformLabels

\* the steps of the issue path and of the PR path in the order of the
\* specification (section 4.3), ending with the return of the handler
IssuePipeline ==
  <<"parse-repo-info", "get-issue-details", "get-issue-comments", "prepare-workspace",
    "set-remote-auth", "get-default-branch", "checkout-branch", "update-labels-in-progress",
    "prepare-llm-prompt", "run-llm", "check-decision", "apply-changes", "check-for-changes",
    "commit-changes", "push-changes", "create-pr", "add-assignees", "update-labels-done",
    "post-completion-comment">>

PRPipeline ==
  <<"parse-repo-info", "get-pr-details", "prepare-workspace", "set-remote-auth",
    "checkout-branch", "prepare-llm-prompt", "run-llm", "check-decision", "apply-changes",
    "commit-changes", "push-changes", "update-pr-body", "post-completion-comment">>

Pipeline == IF wfKind = "issue" THEN IssuePipeline ELSE PRPipeline

\* the position of a step in the pipeline of the running workflow
StepIndex(step) ==
  IF step = "handler" THEN 0 ELSE CHOOSE i \in 1..Len(Pipeline) : Pipeline[i] = step

\* the label sets written so far, by step
WrittenAt(step) == {i \in 1..Len(labelWrites) : labelWrites[i].step = step}

\* C12: a handler moves from a step to the next step of its pipeline or
\* returns, and it stays returned; every effect is made by the step it
\* belongs to; hence the in-progress label is written before the LLM has
\* run, a push follows the commit step (in the issue workflow: a commit), the
\* PR is created after a push, and the done label and the completion comment
\* come after the PR exists.
C12_StepsInPipelineOrder ==
  /\ [][enginePc' # enginePc =>
          /\ enginePc # "returned"
          /\ enginePc' = "returned" \/ StepIndex(enginePc') = StepIndex(enginePc) + 1]_vars
  /\ [][/\ commits' # commits => enginePc = "commit-changes"
        /\ pushes' # pushes => enginePc = "push-changes"
        /\ prOpened' # prOpened => enginePc = "create-pr"
        /\ prBodyUpdated' # prBodyUpdated => enginePc = "update-pr-body"
        /\ outcome' # outcome => enginePc = "run-llm"
        /\ labelWrites' # labelWrites =>
             enginePc \in {"update-labels-in-progress", "check-decision",
                           "update-labels-done"}]_vars
  /\ [](/\ (wfKind = "issue" /\ outcome.decision # "none") =>
             (Len(labelWrites) >= 1 /\ labelWrites[1].step = "update-labels-in-progress")
        /\ (wfKind = "issue" /\ pushes > 0) => commits = 1
        /\ pushedCommits <= commits
        /\ prOpened => (pushes = 1 /\ pushedCommits = 1)
        /\ prBodyUpdated => pushes = 1
        /\ WrittenAt("update-labels-done") # {} => prOpened
        /\ (\E i \in 1..Len(comments) : comments[i] = "completed") =>
             (prOpened /\ WrittenAt("update-labels-done") # {})
        /\ (\E i \in 1..Len(comments) : comments[i] = "applied") => prBodyUpdated)

\* an issue run went through its whole pipeline
C12_Witness ==
  /\ wfKind = "issue"
  /\ engineReturn = "nil"
  /\ comments = <<"completed">>
  /\ prOpened /\ pushedCommits = 1
  /\ platformLabels \cap StatusLabels = {DoneLabel}

-----------------------------------------------------------------------------
(* Properties of the path check *)

\* the workspace root: the absolute, cleaned form of the work directory
WorkspaceRoot == Clean(Abs(toolWorkDir))

\* the canonical form of a caller's path: an absolute path cleaned, a relative
\* one taken from the workspace root
Canonical(path) ==
  IF path.abs THEN Clean(path)
  ELSE Clean(Path(TRUE, WorkspaceRoot.segs \o path.segs))

\* p is the workspace root or lies below it
InsideRoot(p) ==
  /\ Len(p.segs) >= Len(WorkspaceRoot.segs)
  /\ SubSeq(p.segs, 1, Len(WorkspaceRoot.segs)) = WorkspaceRoot.segs

\* C14: validate(path) accepts a caller-supplied path, absolute or relative to
\* the workspace, exactly when its canonical form is the workspace root or a
\* descendant of it; a path that resolves outside is rejected, not clamped.
C14_AcceptIffInside ==
  (validated.called /\ toolWorkDir # Path(FALSE, <<>>))
    => (validated.ok <=> InsideRoot(Canonical(validated.path)))

-----------------------------------------------------------------------------
(* Properties of a provider call *)

\* C15: in both provider dialects a response with status 529 is followed by a
\* further attempt as long as attempts remain, and ends the call with an error
\* when none remain; a response with status 401 ends the call with an error at
\* once, so a call answered 401 first has made a single request.
C15_Retry529NotRetry401 ==
  /\ (provLast.status = 529 /\ provAttempt < maxAttempts)
       => (provResult = "running" /\ ENABLED ProviderAttempt)
  /\ (provLast.status = 529 /\ provAttempt = maxAttempts) => provResult = "error"
  /\ provLast.status = 401 => (provResult = "error" /\ ~ENABLED ProviderAttempt)

C15_Witness ==
  /\ provDialect = "openai"
  /\ provLast.status = 529
  /\ provAttempt = 1
  /\ provResult = "running"

-----------------------------------------------------------------------------
(* Properties of the tool registration *)

\* the names under which server number i offers its tools
ServerToolNames(i) ==
  {MCPToolName(cfgMCPServers[i].name, cfgMCPServers[i].tools[k]) :
     k \in 1..Len(cfgMCPServers[i].tools)}

\* C16: when the runner is built, whatever servers failed to spawn, initialize,
\* list or register, every configured server has been handled, the registry
\* holds every built-in tool (tools being enabled) and every tool of each
\* server that did not fail.
C16_FailedServerIsSkipped ==
  regPc = "done" =>
    /\ cfgToolsEnabled => BuiltinTools \subseteq registry
    /\ Len(serverOutcome) = Len(cfgMCPServers)
    /\ \A i \in 1..Len(cfgMCPServers) :
         (cfgMCPServers[i].fails = "none" /\ serverOutcome[i] # "register")
           => ServerToolNames(i) \subseteq registry

C16_Witness ==
  /\ regPc = "done"
  /\ cfgToolsEnabled
  /\ Len(cfgMCPServers) = 2
  /\ serverOutcome = <<"initialize", "ok">>
  /\ ServerToolNames(2) \subseteq registry
  /\ BuiltinTools \subseteq registry

-----------------------------------------------------------------------------
(* Properties of the webhook handler *)

\* the Jobs that were in the queue before the request's own Job
EarlierJobs == Cardinality({i \in 1..Len(whJobs) : whJobs[i] = 0})

\* the request's own Job is in the queue, once
OwnJobQueued == Cardinality({i \in 1..Len(whJobs) : whJobs[i] = 1}) = 1

\* the status the first failing check stands for, the checks taken in the order
\* method, client IP, payload, queue
FirstFailingCheck ==
  IF whRequest.method # "POST" THEN 405
  ELSE IF ~whAllowlist.allowAll /\ whRequest.ip \notin whAllowlist.entries THEN 403
  ELSE IF \/ whRequest.event \notin {"issues", "issue_comment", "pull_request_review_comment"}
          \/ whRequest.body # "json" THEN 400
  ELSE IF EarlierJobs >= QueueCapacity(1) THEN 503
  ELSE 202

\* C17: the status of a webhook request is that of the first failing check in the
\* order method (405), client IP against a configured allowlist (403), event
\* header and body (400), queue capacity (503); it is 202 when every check
\* passes, and exactly then the request's Job is in the queue.
C17_FirstFailingCheckDecides ==
  whStatus # 0 =>
    /\ whStatus = FirstFailingCheck
    /\ OwnJobQueued <=> whStatus = 202
    /\ whStatus # 202 => Len(whJobs) = EarlierJobs

C17_Witness ==
  /\ whStatus = 503
  /\ whRequest.method = "POST"
  /\ ~whAllowlist.allowAll
  /\ whRequest.ip \in whAllowlist.entries
  /\ Len(whJobs) = QueueCapacity(1)
-----------------------------------------------------------------------------
(* Properties of the handlers' preconditions and of the decision *)

\* the event type a handler is meant for
HandlerEventType ==
  CASE handler = "HandleIssueLabel" -> "issues"
    [] handler = "HandleIssueComment" -> "issue_comment"
    [] handler = "HandlePRComment" -> "pull_request_review_comment"
    [] OTHER -> ""

\* a precondition of the handler fails for the event: its kind is not the
\* handler's, or, the payload being there, the label of a labeled event is no
\* trigger label, the issue of the event is not open, or the PR review comment
\* holds none of the configured slash commands
EventPreconditionFails ==
  \/ event.type # HandlerEventType
  \/ /\ event.present
     /\ \/ handler = "HandleIssueLabel" /\ event.label \notin cfgTriggerLabels
        \/ handler # "HandlePRComment" /\ event.state # "open"
        \/ /\ handler = "HandlePRComment"
           /\ \A i \in 1..Len(PRSlashCommands) :
                PRSlashCommands[i] = "" \/ PRSlashCommands[i] \notin event.body

\* the run has made no workspace, label change, comment, VCS write or LLM call
NoSideEffect ==
  /\ ~workspaceCreated
  /\ ~llmCalled
  /\ labelWrites = <<>>
  /\ comments = <<>>
  /\ commits = 0 /\ pushes = 0 /\ pushedCommits = 0 /\ ~worktreeDirty
  /\ ~prOpened /\ ~prBodyUpdated /\ ~assigneesAdded

\* C18: a handler whose precondition fails for its event returns nil and has
\* made no side effect; an issue or PR that the platform reports as not open
\* ends the run at the step that fetched it, without a side effect.
C18_FailedPreconditionNoEffect ==
  /\ [](EventPreconditionFails =>
          /\ enginePc \in {"handler", "returned"}
          /\ NoSideEffect
          /\ enginePc = "returned" => engineReturn = "nil")
  /\ [](~itemOpen => NoSideEffect)
  /\ [][(enginePc \in {"get-issue-details", "get-pr-details"} /\ ~itemOpen)
          => enginePc' = "returned"]_vars

C18_Witness ==
  /\ handler = "HandleIssueLabel"
  /\ event.type = "issues" /\ event.action = "labeled" /\ event.present
  /\ event.state = "open" /\ event.label = "bug"
  /\ platformLabels # {}
  /\ enginePc = "returned"
  /\ engineReturn = "nil"

\* C19: once the LLM has decided needs_info or stop, the run creates no commit,
\* pushes nothing and neither opens a PR nor updates one.
C19_NoWriteUnlessProceed ==
  outcome.decision \in {"needs_info", "stop"} =>
    /\ commits = 0
    /\ pushes = 0 /\ pushedCommits = 0
    /\ ~prOpened /\ ~prBodyUpdated
    /\ enginePc \in {"check-decision", "returned"}

C19_Witness ==
  /\ wfKind = "issue"
  /\ outcome.decision = "needs_info"
  /\ worktreeDirty
  /\ enginePc = "returned"
  /\ comments = <<"needs-info">>
  /\ NeedsInfoLabel \in platformLabels

-----------------------------------------------------------------------------
(* truncateMessages applied to a conversation of its own *)

\* the contents of a message: one block, or a text followed by a tool-use
MessageContents ==
  {<<TextBlock>>} \cup {<<ToolUseBlock(id)>> : id \in 1..MaxProviderID + 1}
    \cup {<<ToolResultBlock(id)>> : id \in 1..MaxProviderID + 1}
    \cup {<<TextBlock, ToolUseBlock(id)>> : id \in 1..MaxProviderID + 1}

\* the role of a message is that of its blocks: tool results come from the user
MessageOf(content) ==
  [role |-> IF content[1].type = "tool_result" THEN "user" ELSE "assistant",
   content |-> content]

\* the conversations in which every tool-result has its tool-use in an earlier
\* message
Conversations ==
  {ms \in {[i \in 1..Len(cs) |-> MessageOf(cs[i])] :
             cs \in SeqsUpTo(MessageContents, MaxConversation)} :
     Len(ms) >= 1 /\ PairingInvariant(ms)}

TruncateStart ==
  /\ tmMessages \in Conversations
  /\ tmMaxMessages \in 1..MaxKeep
  /\ tmResult = [returned |-> FALSE, messages |-> <<>>]

TruncateCall ==
  /\ ~tmResult.returned
  /\ tmResult' = [returned |-> TRUE, messages |-> truncateMessages(tmMessages, tmMaxMessages)]
  /\ UNCHANGED <<tmMessages, tmMaxMessages>>
  /\ UNCHANGED notTruncateVars

TruncateNext == TruncateCall

TruncateInit ==
  /\ TruncateStart
  /\ QueueIdle /\ LoopIdle /\ EngineIdle /\ PathIdle /\ ProviderIdle /\ RegistryIdle
  /\ WebhookIdle
  /\ ToolsIdle
  /\ ConcIdle
  /\ FeedIdle
  /\ StdioIdle
  /\ CompactIdle
  /\ RunnerIdle
  /\ WorkspaceIdle
  /\ BashIdle

SpecTruncate == TruncateInit /\ [][TruncateNext]_vars

\* the result is the first message followed by the messages from index k on
IsFirstPlusSuffix(result, ms) ==
  \E k \in 2..(Len(ms) + 1) : result = <<ms[1]>> \o SubSeq(ms, k, Len(ms))

\* no tool-use id occurs in two tool-use blocks of ms
ToolUseIDsDistinct(ms) ==
  \A i, j \in 1..Len(ms) :
    (i # j) => ToolUseIDsAt(ms, {i}) \cap ToolUseIDsAt(ms, {j}) = {}

\* C20 as stated: for every conversation whose tool-results follow their
\* tool-uses and every max_messages >= 1, truncation returns the first message
\* followed by a contiguous suffix, and in the result every tool-result has its
\* tool-use in an earlier message.
C20_TruncationKeepsPairs ==
  tmResult.returned =>
    /\ IsFirstPlusSuffix(tmResult.messages, tmMessages)
    /\ PairingInvariant(tmResult.messages)

\* C20 for the conversations the agent loop builds, whose tool-use ids are
\* distinct: the result is the first message followed by a contiguous suffix,
\* and every tool-result of it has its tool-use in an earlier message of it;
\* with repeated tool-use ids the result is still such a suffix.
C20_TruncationKeepsPairsDistinctIDs ==
  tmResult.returned =>
    /\ IsFirstPlusSuffix(tmResult.messages, tmMessages)
    /\ ToolUseIDsDistinct(tmMessages) => PairingInvariant(tmResult.messages)
    /\ Len(tmMessages) <= tmMaxMessages => tmResult.messages = tmMessages

\* a truncation that had to move its cut back to keep a pair together
C20_Witness ==
  /\ tmResult.returned
  /\ ToolUseIDsDistinct(tmMessages)
  /\ Len(tmMessages) = 4
  /\ tmMaxMessages = 2
  /\ Len(tmResult.messages) = 3
  /\ ToolResultsAt(tmResult.messages, {3}) # {}

-----------------------------------------------------------------------------
\* the step of Run that appends the assistant message of a provider response
AssistantAppended ==
  /\ loopPc = "call"
  /\ Len(messages') = Len(messages) + 1
  /\ messages'[Len(messages')].role = "assistant"

\* C21: once the assistant message is appended the response decides what Run
\* does next: stop reason end_turn returns success with the state that holds
\* the appended message, max_tokens returns the max-tokens error, and tool_use,
\* or a further stop reason on a response with tool-use blocks, takes Run to
\* executeTools, whose result message is the next thing added to the state.
C21_StopReasonDecides ==
  [][/\ AssistantAppended =>
          LET stop == lastResponse'.stop
              content == messages'[Len(messages')].content
          IN /\ SubSeq(messages', 1, Len(messages)) = messages
             /\ content = lastResponse'.content
             /\ stop = "end_turn" => loopPc' = "done" /\ loopResult' = "success"
             /\ stop = "max_tokens" => loopPc' = "done" /\ loopResult' = "max_tokens"
             /\ (stop = "tool_use" \/
                 (stop \notin {"end_turn", "max_tokens"} /\ Len(GetToolUses(content)) > 0))
                  => loopPc' = "tools" /\ loopResult' = "none"
     /\ (loopPc = "tools" /\ loopPc' # "tools") =>
          /\ loopPc' = "top"
          /\ Len(messages') = Len(messages) + 1
          /\ messages'[Len(messages')] =
               buildToolResultMessage(GetToolUses(lastResponse.content))]_vars

\* Run is about to execute the tools of a response whose stop reason is
\* stop_sequence and that holds tool-use blocks: the assistant message is the
\* last one of the state
C21_Witness ==
  /\ loopPc = "tools"
  /\ lastResponse.stop = "stop_sequence"
  /\ Len(GetToolUses(lastResponse.content)) > 0
  /\ messages[Len(messages)].role = "assistant"

-----------------------------------------------------------------------------
\* m is one user message holding exactly one tool-result per tool-use block of
\* the assistant message a, in the order of the tool-use blocks, each with the
\* id its tool-use carries after the id repair
IsResultMessageFor(m, a) ==
  LET uses == GetToolUses(a.content) IN
    /\ m.role = "user"
    /\ Len(m.content) = Len(uses)
    /\ \A k \in 1..Len(uses) :
         /\ m.content[k].type = "tool_result"
         /\ m.content[k].id = uses[k].id
         /\ m.content[k].id # EmptyID

\* the step of Run that leaves the tool-call branch
ToolsExecuted == loopPc = "tools" /\ loopPc' # "tools"

\* C22 as stated: every assistant message with tool-use blocks that Run appends
\* takes Run to the tool-call branch, which appends exactly one user message
\* with one tool-result per tool-use, in order, under the repaired ids.
C22_ResultMessageAfterEveryToolUse ==
  [][/\ (AssistantAppended /\ Len(GetToolUses(messages'[Len(messages')].content)) > 0)
          => loopPc' = "tools"
     /\ ToolsExecuted =>
          /\ SubSeq(messages', 1, Len(messages)) = messages
          /\ Len(messages') = Len(messages) + 1
          /\ IsResultMessageFor(messages'[Len(messages')], messages[Len(messages)])]_vars

\* C22 (amended): an assistant message with tool-use blocks whose stop reason
\* is neither end_turn nor max_tokens takes Run to the tool-call branch, and
\* that branch appends exactly one user message with one tool-result per
\* tool-use block of the assistant message, in order, under the repaired ids.
C22_ResultMessageAfterExecutedToolUse ==
  [][/\ (/\ AssistantAppended
         /\ Len(GetToolUses(messages'[Len(messages')].content)) > 0
         /\ lastResponse'.stop \notin {"end_turn", "max_tokens"})
          => loopPc' = "tools"
     /\ ToolsExecuted =>
          /\ SubSeq(messages', 1, Len(messages)) = messages
          /\ Len(messages') = Len(messages) + 1
          /\ IsResultMessageFor(messages'[Len(messages')], messages[Len(messages)])]_vars

\* the tool-call branch has answered an assistant message with two tool-use
\* blocks, one of them under an id the repair generated
C22_Witness ==
  /\ loopPc = "top"
  /\ Len(messages) >= 3
  /\ generated > 0
  /\ Len(GetToolUses(messages[Len(messages) - 1].content)) = 2
  /\ \E k \in 1..2 : messages[Len(messages) - 1].content[k].id > MaxProviderID
  /\ IsResultMessageFor(messages[Len(messages)], messages[Len(messages) - 1])

-----------------------------------------------------------------------------
ToolsInit ==
  /\ ToolsStart
  /\ QueueIdle /\ LoopIdle /\ EngineIdle /\ PathIdle /\ ProviderIdle /\ RegistryIdle
  /\ WebhookIdle /\ TruncateIdle
  /\ ConcIdle
  /\ FeedIdle
  /\ StdioIdle
  /\ CompactIdle
  /\ RunnerIdle
  /\ WorkspaceIdle
  /\ BashIdle

SpecTools == ToolsInit /\ [][ToolsNext]_vars

\* the k-th tool use names a tool absent from the registry, or its executor
\* returns an error
ToolFails(k) ==
  \/ tcUses[k].name \notin tcRegistry
  \/ tcUses[k].exec = "err"

\* C23: a tool use that names a tool absent from the registry, or whose
\* executor returns an error, yields a result with the error flag set; Run
\* never returns the tool-execution error, and when the branch is done the one
\* message it added holds a tool-result for every tool use, in order, the
\* failed ones flagged as errors under the id of their tool use.
C23_ToolFailureIsInBand ==
  /\ tcPc # "error"
  /\ \A k \in 1..Len(tcResults) :
       ToolFails(k) => tcResults[k].IsError /\ tcResults[k].ID = tcUses[k].id
  /\ tcPc = "top" =>
       /\ Len(tcAppended) = 1
       /\ Len(tcAppended[1].content) = Len(tcUses)
       /\ \A k \in 1..Len(tcUses) :
            /\ tcAppended[1].content[k].type = "tool_result"
            /\ tcAppended[1].content[k].id = tcUses[k].id
            /\ ToolFails(k) => tcAppended[1].content[k].isError

\* the loop goes on after a response with two tool uses: the first names a
\* tool that is not registered, the executor of the second returned an error
C23_Witness ==
  /\ tcPc = "top"
  /\ Len(tcUses) = 2
  /\ tcUses[1].name \notin tcRegistry
  /\ tcUses[2].name \in tcRegistry /\ tcUses[2].exec = "err"
  /\ tcAppended[1].content[1].isError /\ tcAppended[1].content[2].isError

-----------------------------------------------------------------------------
ConcInit ==
  /\ ConcStart
  /\ QueueIdle /\ LoopIdle /\ EngineIdle /\ PathIdle /\ ProviderIdle /\ RegistryIdle
  /\ WebhookIdle /\ TruncateIdle /\ ToolsIdle
  /\ FeedIdle
  /\ StdioIdle
  /\ CompactIdle
  /\ RunnerIdle
  /\ WorkspaceIdle
  /\ BashIdle

SpecConc == ConcInit /\ [][ConcNext]_vars

\* the Register calls for the name n
RegistersOf(n) == {p \in Callers : crCall[p].op = "Register" /\ crCall[p].name = n}

\* caller p's Register has stored its tool / has been rejected
RegisterSucceeded(p) ==
  crCall[p].op = "Register" /\ crCall[p].pc \in {"unlock", "returned"} /\ ~crCall[p].err
RegisterRejected(p) ==
  crCall[p].op = "Register" /\ crCall[p].pc \in {"unlock", "returned"} /\ crCall[p].err

\* C24: under every interleaving of Register and Get calls a name holds at most
\* one tool: at most one Register per name succeeds and its tool stays the
\* entry of the name; a rejected Register found another caller's tool, which is
\* still the entry; once all Registers of a name have returned exactly one of
\* them has succeeded; and Get returns nil for a name nobody registers, and
\* otherwise nil or the tool of the Register that succeeded.
C24_OneToolPerName ==
  /\ \A n \in RegNames :
       /\ Cardinality({p \in RegistersOf(n) : RegisterSucceeded(p)}) <= 1
       /\ (RegistersOf(n) # {} /\ \A p \in RegistersOf(n) : crCall[p].pc = "returned")
            => Cardinality({p \in RegistersOf(n) : RegisterSucceeded(p)}) = 1
  /\ \A p \in Callers :
       /\ RegisterSucceeded(p) => crTools[crCall[p].name] = p
       /\ RegisterRejected(p) =>
            /\ crTools[crCall[p].name] \notin {NilTool, p}
            /\ RegisterSucceeded(crTools[crCall[p].name])
       /\ (crCall[p].op = "Get" /\ crCall[p].pc = "returned") =>
            /\ RegistersOf(crCall[p].name) = {} => crCall[p].tool = NilTool
            /\ crCall[p].tool # NilTool =>
                 /\ crCall[p].tool \in RegistersOf(crCall[p].name)
                 /\ RegisterSucceeded(crCall[p].tool)

\* two Registers of one name have returned, one with the duplicate error, and
\* a Get of a name that nobody registers has returned nil
C24_Witness ==
  \E p, q, g \in Callers :
    /\ p # q
    /\ crCall[p].name = crCall[q].name
    /\ RegisterSucceeded(p) /\ crCall[p].pc = "returned"
    /\ RegisterRejected(q) /\ crCall[q].pc = "returned"
    /\ crCall[g].op = "Get" /\ crCall[g].pc = "returned"
    /\ crCall[g].name # crCall[p].name /\ crCall[g].tool = NilTool

-----------------------------------------------------------------------------
FeedInit ==
  /\ EngineStart
  /\ FeedIdle
  /\ QueueIdle /\ LoopIdle /\ PathIdle /\ ProviderIdle /\ RegistryIdle
  /\ WebhookIdle /\ TruncateIdle /\ ToolsIdle /\ ConcIdle
  /\ StdioIdle
  /\ CompactIdle
  /\ RunnerIdle
  /\ WorkspaceIdle
  /\ BashIdle

SpecFeed == FeedInit /\ [][FeedNext]_vars

\* C25: when HandleIssueComment is called with the delivery of a comment the
\* engine itself posted (needs-info, no-change, failure or completion), no
\* workflow run starts: the handler returns without a workspace, an LLM run, a
\* label write or a further comment.
C25_OwnCommentsStartNoRun ==
  fdDelivered > 0 =>
    /\ enginePc \in {"handler", "returned"}
    /\ ~workspaceCreated
    /\ ~llmCalled
    /\ labelWrites = <<>>
    /\ comments = <<>>

-----------------------------------------------------------------------------
\* HandleIssueComment has started handleIssue: the run is past the handler's
\* own checks and has not returned
IssueCommentRunStarted ==
  /\ handler = "HandleIssueComment"
  /\ enginePc \notin {"handler", "returned"}

\* C26 as stated: a new issue comment starts the issue workflow, and moves the
\* issue to in-progress, only if the issue carries the needs-info label when
\* the comment arrives; the labels on the platform are those the issue had at
\* the delivery until the run's first label write.
C26_CommentRunsOnlyFromNeedsInfo ==
  [][/\ (IssueCommentRunStarted' /\ labelWrites' = <<>>)
          => NeedsInfoLabel \in platformLabels'
     /\ (handler = "HandleIssueComment" /\ labelWrites = <<>> /\ labelWrites' # <<>>)
          => NeedsInfoLabel \in platformLabels]_vars

-----------------------------------------------------------------------------
\* the needs-info label was written by the check of the decision
NeedsInfoLabelApplied ==
  \E i \in 1..Len(labelWrites) :
    /\ labelWrites[i].step = "check-decision"
    /\ NeedsInfoLabel \in labelWrites[i].labels

\* C27 as stated: on a stop decision the issue workflow only posts the comment
\* and returns; the needs-info label is applied only when the decision is
\* needs_info.
C27_NeedsInfoLabelOnlyOnNeedsInfo ==
  (wfKind = "issue" /\ NeedsInfoLabelApplied) => outcome.decision = "needs_info"

-----------------------------------------------------------------------------
StdioInit ==
  /\ StdioStart
  /\ QueueIdle /\ LoopIdle /\ EngineIdle /\ PathIdle /\ ProviderIdle /\ RegistryIdle
  /\ WebhookIdle /\ TruncateIdle /\ ToolsIdle /\ ConcIdle /\ FeedIdle
  /\ CompactIdle
  /\ RunnerIdle
  /\ WorkspaceIdle
  /\ BashIdle

SpecStdio == StdioInit /\ [][StdioNext]_vars

\* the reader takes the next response line
ReaderStep == stOut # <<>> /\ stOut' = Tail(stOut)

\* C28 as stated: when the reader takes a response line that carries the id
\* of a request whose Send is waiting on its channel, that response is put in
\* the channel of that Send, which returns exactly it; and a response only
\* ever reaches a Send whose request has the id the response carries.
C28_ResponseReachesItsSend ==
  [][/\ ReaderStep =>
          LET resp == Head(stOut)
              p == resp.to
          IN (stSend[p].pc = "wait" /\ PendingOf(stSend[p].id) = p) => stChan'[p] = resp
     /\ \A p \in Senders :
          /\ (stChan'[p] # stChan[p] /\ stChan'[p] # NoRPCResponse)
               => stChan'[p].id = Marshal(stSend[p].id)
          /\ (stSend'[p].resp # stSend[p].resp)
               => stSend'[p].resp = stChan[p] /\ stSend'[p].resp.id = Marshal(stSend[p].id)]_vars

-----------------------------------------------------------------------------
\* the latest attempt got a 2xx status with a body that is empty or cannot be
\* parsed
Unparseable2xx ==
  /\ ~provLast.err
  /\ provLast.status >= 200 /\ provLast.status < 300
  /\ ~provLast.parsed

\* C29 as stated: in both dialects a 2xx response with an empty or unparseable
\* body is retried while attempts remain; the parse error is returned only by
\* the last attempt.
C29_Unparseable2xxIsRetried ==
  /\ (Unparseable2xx /\ provAttempt < maxAttempts) => provResult = "running"
  /\ (Unparseable2xx /\ provAttempt = maxAttempts) => provResult = "error"

-----------------------------------------------------------------------------
(* One call of Compactor.Compact on a conversation whose tool-results follow
   their tool-uses (SpecCompact) *)

CompactStart ==
  /\ cpMessages \in Conversations
  /\ cpConfig \in CompactConfigs
  /\ cpSummaryOK \in BOOLEAN
  /\ cpResult = [returned |-> FALSE, messages |-> <<>>, err |-> FALSE]

\* every return of Compact carries a nil error
CompactCall ==
  /\ ~cpResult.returned
  /\ cpResult' = [returned |-> TRUE,
                  messages |-> Compact(cpConfig, cpMessages, cpSummaryOK),
                  err |-> FALSE]
  /\ UNCHANGED <<cpMessages, cpConfig, cpSummaryOK>>
  /\ UNCHANGED notCompactVars

CompactNext == CompactCall

CompactInit ==
  /\ CompactStart
  /\ QueueIdle /\ LoopIdle /\ EngineIdle /\ PathIdle /\ ProviderIdle /\ RegistryIdle
  /\ WebhookIdle /\ TruncateIdle /\ ToolsIdle /\ ConcIdle /\ FeedIdle /\ StdioIdle
  /\ RunnerIdle
  /\ WorkspaceIdle
  /\ BashIdle

SpecCompact == CompactInit /\ [][CompactNext]_vars

\* Compact has returned from a call in which it asked for a summary (more than
\* KeepRecent+1 messages) and generateSummary failed
SummaryFailed ==
  /\ cpResult.returned
  /\ ~cpSummaryOK
  /\ Len(cpMessages) > cpConfig.KeepRecent + 1

\* the last n messages of ms
LastMessages(ms, n) == SubSeq(ms, Len(ms) - n + 1, Len(ms))

\* every tool-result among the last n messages of ms has its tool-use in the
\* first message or among the last n
LastClosed(ms, n) ==
  \A p \in ToolResultsAt(ms, (Len(ms) - n + 1)..Len(ms)) :
    ms[p[1]].content[p[2]].id
      \in ToolUseIDsAt(ms, {1} \cup (Len(ms) - n + 1)..Len(ms))

\* C30 as stated: when the summarization call fails, Compact returns, without
\* an error, the first message followed by the last keep_recent+1 messages.
C30_FallbackKeepsLastKeepRecentPlusOne ==
  SummaryFailed =>
    /\ ~cpResult.err
    /\ cpResult.messages =
         <<cpMessages[1]>> \o LastMessages(cpMessages, cpConfig.KeepRecent + 1)

\* C30: when the summarization call fails, Compact returns, without an error,
\* the first message followed by a run of the last messages of the input: the
\* last keep_recent of them (keep_recent+1 messages in all) when each of their
\* tool-results has its tool-use in the first message or among them, and more
\* of them, never fewer, when a tool-use has to be kept for a tool-result.
C30_FallbackKeepsLastKeepRecent ==
  SummaryFailed =>
    /\ ~cpResult.err
    /\ \E n \in cpConfig.KeepRecent..(Len(cpMessages) - 1) :
         /\ cpResult.messages = <<cpMessages[1]>> \o LastMessages(cpMessages, n)
         /\ LastClosed(cpMessages, n)
         /\ LastClosed(cpMessages, cpConfig.KeepRecent) => n = cpConfig.KeepRecent

\* the summary of a four-message conversation failed with keep_recent = 1 and
\* Compact returned two messages
C30_Witness ==
  /\ SummaryFailed
  /\ Len(cpMessages) = 4
  /\ cpConfig.KeepRecent = 1
  /\ Len(cpResult.messages) = 2

-----------------------------------------------------------------------------
\* C31 as stated: every request the agent loop sends to the provider carries
\* at most max_messages messages.
C31_RequestWithinMaxMessages ==
  loopPc = "call" => Len(sent) <= maxMessages

\* C31: a request of the agent loop carries at most max_messages messages
\* unless the last max_messages-1 messages of the history hold a tool-result
\* whose tool-use is neither among them nor in the first message; the request
\* then is the first message followed by a longer run of the last messages of
\* the history, in which every tool-result has its tool-use.
C31_RequestWithinMaxMessagesOrPairs ==
  loopPc = "call" =>
    \/ Len(sent) <= maxMessages
    \/ /\ ~LastClosed(messages, maxMessages - 1)
       /\ \E n \in maxMessages..(Len(messages) - 1) :
            /\ sent = <<messages[1]>> \o LastMessages(messages, n)
            /\ LastClosed(messages, n)

\* a request longer than max_messages is about to be sent
C31_Witness ==
  /\ loopPc = "call"
  /\ Len(sent) > maxMessages

-----------------------------------------------------------------------------
\* C32: every message list the agent loop sends to the provider ends with a
\* user message.
C32_RequestEndsWithUser ==
  loopPc = "call" => sent[Len(sent)].role = "user"

-----------------------------------------------------------------------------
RunnerInit ==
  /\ RunnerStart
  /\ QueueIdle /\ LoopIdle /\ EngineIdle /\ PathIdle /\ ProviderIdle /\ RegistryIdle
  /\ WebhookIdle /\ TruncateIdle /\ ToolsIdle /\ ConcIdle /\ FeedIdle /\ StdioIdle
  /\ CompactIdle
  /\ WorkspaceIdle
  /\ BashIdle

SpecRunner == RunnerInit /\ [][RunnerNext]_vars

\* the final output holds no JSON object with a decision field
NoDecisionObject ==
  \A k \in 1..Len(rnOutput) : ~rnOutput[k].json \/ rnOutput[k].decision = ""

\* C33: when the final output holds no JSON object with a decision field, Run
\* returns an error and no decision.
C33_MissingDecisionIsError ==
  (rnResult.returned /\ NoDecisionObject) =>
    rnResult.err /\ rnResult.decision = ""

-----------------------------------------------------------------------------
WorkspaceInit ==
  /\ WorkspaceStart
  /\ QueueIdle /\ LoopIdle /\ EngineIdle /\ PathIdle /\ ProviderIdle /\ RegistryIdle
  /\ WebhookIdle /\ TruncateIdle /\ ToolsIdle /\ ConcIdle /\ FeedIdle /\ StdioIdle
  /\ CompactIdle /\ RunnerIdle
  /\ BashIdle

SpecWorkspace == WorkspaceInit /\ [][WorkspaceNext]_vars

\* job j has made the directories of its workspace
HasWorkspace(j) == wsJob[j].pc \in {"mkdir", "prepared", "branched"}

\* C34: no two jobs use the same workspace directory, and no two issue jobs
\* the same new branch name.
C34_WorkspacesDistinct ==
  \A i, j \in DOMAIN wsJob :
    i # j =>
      /\ (HasWorkspace(i) /\ HasWorkspace(j)) => wsJob[i].workDir # wsJob[j].workDir
      /\ (wsJob[i].pc = "branched" /\ wsJob[j].pc = "branched") =>
           wsJob[i].branch # wsJob[j].branch

-----------------------------------------------------------------------------
\* s is a prefix of t: what the platform accepted stays accepted
IsPrefixOf(s, t) == Len(s) <= Len(t) /\ SubSeq(t, 1, Len(s)) = s

\* the step that is running ends the run without an error only where the
\* pipeline ends a run: a precondition that does not hold, an item that is
\* not open, and a comment that is the last call of the handler and was posted
ReturnsNilWhereTheRunEnds ==
  \/ enginePc = "handler"
  \/ enginePc \in {"get-issue-details", "get-pr-details"} /\ ~itemOpen
  \/ /\ enginePc \in {"check-decision", "check-for-changes", "post-completion-comment"}
     /\ Len(comments') = Len(comments) + 1

-----------------------------------------------------------------------------
\* The goroutines of the transport and of the senders are scheduled, and the
\* server answers what it has read while it runs; nothing obliges a caller to
\* cancel its ctx, the owner to call Close, or the server to exit.
SpecStdioFair ==
  /\ StdioInit
  /\ [][StdioNext]_vars
  /\ WF_vars(ServerResponds)
  /\ WF_vars(ReadResponse)
  /\ WF_vars(ReaderExits)
  /\ \A p \in Senders :
       WF_vars(SendWrite(p)) /\ WF_vars(SendReceives(p)) /\ WF_vars(SendCancelled(p))

\* C36: a Send that is waiting for its response when the transport is closed,
\* or when the output of the server process has ended, eventually returns.
C36_WaitingSendReturnsAfterClose ==
  \A p \in Senders :
    (stSend[p].pc = "wait" /\ (stClosed \/ stChild = "exited"))
      ~> (stSend[p].pc = "returned")

-----------------------------------------------------------------------------
\* C37: no two request lines written on one transport carry the same id.
C37_RequestIDsDistinct ==
  \A i, j \in 1..Len(stSentIDs) : i # j => stSentIDs[i] # stSentIDs[j]

-----------------------------------------------------------------------------
\* Send p has written its request and its response has not been dispatched
AwaitsDispatch(p) == stSend[p].pc = "wait" /\ stChan[p] = NoRPCResponse

\* C38: t.pending holds an entry under an id exactly while a Send with that id
\* has written its request and no response has been dispatched to it; the
\* Send that gives up on a cancelled ctx returns an error; Notify leaves
\* t.pending as it is.
C38_PendingExactlyWhileWaiting ==
  /\ [](\A p \in DOMAIN stSend :
          AwaitsDispatch(p) => (\E e \in stPending : e.key = stSend[p].id))
  /\ [](\A e \in stPending : \E p \in DOMAIN stSend :
          AwaitsDispatch(p) /\ stSend[p].id = e.key)
  /\ [][\A p \in DOMAIN stSend :
          (stSend[p].pc = "wait" /\ stSend'[p].pc = "returned" /\ stSend'[p].err)
            => stSend[p].ctxDone]_vars
  /\ [][Notify => stPending' = stPending]_vars

-----------------------------------------------------------------------------
BashInit ==
  /\ BashStart
  /\ QueueIdle /\ LoopIdle /\ EngineIdle /\ PathIdle /\ ProviderIdle /\ RegistryIdle
  /\ WebhookIdle /\ TruncateIdle /\ ToolsIdle /\ ConcIdle /\ FeedIdle /\ StdioIdle
  /\ CompactIdle /\ RunnerIdle /\ WorkspaceIdle

SpecBash == BashInit /\ [][BashNext]_vars

\* the input carries a positive timeout that an int can hold
InputTimeoutUsed == btInput.kind = "float" /\ btInput.halves > 0

\* the requested timeout in half seconds: that of the input when it is
\* positive, else that of the context
RequestedHalves == IF InputTimeoutUsed THEN btInput.halves ELSE 2 * btBashTimeout

\* the requested timeout in whole seconds, the fraction of a second dropped
RequestedSeconds == IF InputTimeoutUsed THEN btInput.halves \div 2 ELSE btBashTimeout

\* C39 as stated: the effective timeout is the requested value clamped into
\* 1..300 seconds: unchanged in that range, 300 above it, 1 below it.
C39_TimeoutClampedToRange ==
  (btResult.done /\ btInput.kind # "huge") =>
    2 * btResult.timeout =
      (IF RequestedHalves > 2 * 300 THEN 2 * 300
       ELSE IF RequestedHalves < 2 THEN 2 ELSE RequestedHalves)

\* C39: the effective timeout lies in 1..300 seconds; it is the requested
\* value in whole seconds when that lies in 1..300, 300 when it is above 300
\* and 60 when it is below 1; for an input timeout too large for an int it is
\* 300 or 60.
C39_TimeoutClampedOrDefault ==
  btResult.done =>
    /\ btResult.timeout \in 1..300
    /\ btInput.kind = "huge" => btResult.timeout \in {60, 300}
    /\ btInput.kind # "huge" =>
         /\ RequestedSeconds \in 1..300 => btResult.timeout = RequestedSeconds
         /\ RequestedSeconds > 300 => btResult.timeout = 300
         /\ RequestedSeconds < 1 => btResult.timeout = 60

\* a requested timeout below one second was replaced by 60 seconds
C39_Witness ==
  /\ btResult.done
  /\ btInput.kind = "float" /\ btInput.halves = 1
  /\ btResult.timeout = 60

-----------------------------------------------------------------------------
\* C40: a run of the PR-review-comment workflow writes no labels, leaves the
\* labels on the platform as they are and adds no assignee, whether it ends
\* with the completion comment, with a decision other than proceed or with an
\* error.
C40_PRWorkflowLeavesLabelsAndAssignees ==
  /\ [](wfKind = "pr" => (labelWrites = <<>> /\ ~assigneesAdded))
  /\ [][wfKind = "pr" => platformLabels' = platformLabels]_vars

\* a PR run committed, pushed, updated the PR body and posted its comment
C40_Witness ==
  /\ wfKind = "pr"
  /\ enginePc = "returned"
  /\ engineReturn = "nil"
  /\ pushes = 1
  /\ prBodyUpdated
  /\ comments = <<"applied">>
  /\ platformLabels # {}

=============================================================================
